---- MODULE Spec2Model ----
(***************************************************************************)
(* Workspace search engine: the ripgrep text-search driver and parser      *)
(* (ripgrepTextSearch.ts), the file walker (fileSearch.ts) and the raw     *)
(* search service with its prefix cache (rawSearchService.ts).             *)
(*                                                                         *)
(* One search is modelled per behaviour; `kind` says which component the   *)
(* behaviour exercises:                                                    *)
(*   "text"    - one RipgrepEngine with its RipgrepParser and child        *)
(*   "walk"    - one FileWalker over its folder queries                    *)
(*   "service" - one SearchService, its caches, engines and queries        *)
(*   "line"    - one call of RipgrepParser.handleMatchLine on a result line *)
(*   "collect" - one call of DiskSearch.collectResultsFromEvent             *)
(* Each component keeps its state in one record; the other records stay    *)
(* at their idle value.                                                    *)
(***************************************************************************)
EXTENDS Integers, Sequences, FiniteSets, TLC

VARIABLES kind, rg, fw, svc, pl, ds, eq, bc, ps, nt

vars == <<kind, rg, fw, svc, pl, ds, eq, bc, ps, nt>>

(***************************************************************************)
(* Bounds of the model.                                                    *)
(***************************************************************************)
MaxLines == 4
MaxMatchesPerLine == 2
MaxK == 2

(***************************************************************************)
(* Small helpers.                                                          *)
(***************************************************************************)
Min(a, b) == IF a <= b THEN a ELSE b

Range(s) == {s[i] : i \in 1..Len(s)}

RemoveAt(s, i) == [j \in 1..(Len(s) - 1) |-> IF j < i THEN s[j] ELSE s[j + 1]]

SeqsUpTo(S, n) == UNION {[1..m -> S] : m \in 0..n}

\* the number of entries of log whose event is e
CountEv(log, e) == Cardinality({i \in 1..Len(log) : log[i].e = e})

(***************************************************************************)
(*                    TEXT SEARCH: RipgrepEngine                           *)
(*                                                                         *)
(* The child's stdout is a sequence of complete output lines: a file       *)
(* header, or a result line holding n >= 1 match runs.  rg prints a header *)
(* only before the result lines of that file; result lines without a       *)
(* header are what rg prints when it searches one loose file.              *)
(***************************************************************************)
\* rg prints every file once: the i-th header of an output names RgFileNames[i]
RgFileNames == <<"f1", "f2", "f3">>

ExtraFile == "x"

FileLine(f) == [t |-> "file", f |-> f, n |-> 0]

MatchLine(n) == [t |-> "match", f |-> "", n |-> n]

RgLines ==
    {FileLine(RgFileNames[i]) : i \in 1..Len(RgFileNames)}
        \cup {MatchLine(n) : n \in 1..MaxMatchesPerLine}

\* the number of file headers among the first i lines of o
HeadersUpTo(o, i) == Cardinality({j \in 1..i : o[j].t = "file"})

RgOutputs ==
    {o \in SeqsUpTo(RgLines, MaxLines) :
        \A i \in 1..Len(o) :
            o[i].t = "file" =>
                /\ i < Len(o) /\ o[i + 1].t = "match"
                /\ HeadersUpTo(o, i) <= Len(RgFileNames)
                /\ o[i].f = RgFileNames[HeadersUpTo(o, i)]}

\* an entry of the observation log of an engine
\* (late: cancel() had been called on the engine before the call was made)
Ev(e, f, n, err, limitHit, late) ==
    [e |-> e, f |-> f, n |-> n, err |-> err, limitHit |-> limitHit, late |-> late]

RgConfigs ==
    [folders : 0..1, extra : 0..1, maxResults : 0..MaxK, sibling : BOOLEAN,
     output : RgOutputs]

\* the engine right after `new RipgrepEngine(config)`
RgNew(c) ==
    [cfg |-> c,
     pc |-> "init",              \* init | running | closed | returned
     isDone |-> FALSE,           \* RipgrepEngine.isDone
     rgProc |-> "undefined",     \* the field this.rgProc: undefined | set | null
     child |-> "none",           \* the child process: none | running | closed
     killed |-> FALSE,           \* a terminate signal was sent to the child
     exitListeners |-> 0,        \* process 'exit' listeners registered
     hasParser |-> FALSE,        \* this.ripgrepParser is set
     pIsDone |-> FALSE,          \* RipgrepParser.isDone
     fileMatch |-> <<>>,         \* RipgrepParser.fileMatch (<<>> is null)
     numResults |-> 0,           \* RipgrepParser.numResults
     pos |-> 0,                  \* output lines delivered by stdout so far
     parsed |-> 0,               \* output lines the parser looked at
     gotData |-> FALSE,
     stderr |-> "none",          \* what stderr has delivered so far
     pending |-> <<>>,           \* results waiting for their sibling lookup
     handledFailed |-> FALSE,    \* resultsHandledP is rejected
     closeWaiting |-> FALSE,     \* the close continuation waits on resultsHandledP
     threw |-> FALSE,            \* handleMatchLine threw 'unknown file'
     cancelThrew |-> FALSE,      \* cancel() raised a TypeError
     canceled |-> FALSE,         \* the caller has called cancel()
     emitted |-> <<>>,           \* the parser's 'result' events, in order
     log |-> <<>>]               \* onResult / done calls, in order

RgIdle ==
    RgNew([folders |-> 0, extra |-> 0, maxResults |-> 0, sibling |-> FALSE,
           output |-> <<>>])

\* RipgrepEngine.cancel
RgCancelBody(s) ==
    LET s1 == [s EXCEPT !.isDone = TRUE] IN
    IF ~s1.hasParser
        THEN [s1 EXCEPT !.cancelThrew = TRUE]
        ELSE LET s2 == [s1 EXCEPT !.pIsDone = TRUE] IN
             IF s2.rgProc # "set"
                 THEN [s2 EXCEPT !.cancelThrew = TRUE]
                 ELSE [s2 EXCEPT !.killed = TRUE]

\* the engine's handler of the parser's 'result' event
RgOnResultEvent(s, m) ==
    IF s.cfg.sibling
        THEN [s EXCEPT !.pending = Append(@, m)]
        ELSE [s EXCEPT !.log = Append(@, Ev("result", m.f, m.n, FALSE, FALSE, s.canceled))]

\* RipgrepParser.onResult
\* (at: the number of output lines the parser had looked at)
RgParserOnResult(s) ==
    RgOnResultEvent([s EXCEPT !.fileMatch = <<>>,
                              !.emitted = Append(@, [f |-> s.fileMatch[1].f,
                                                     n |-> s.fileMatch[1].n,
                                                     at |-> s.parsed])],
                    s.fileMatch[1])

\* the engine's handler of the parser's 'hitLimit' event; the first
\* definition is the variant that does not call this.cancel()
RgOnHitLimit_noCancel(s) ==
    [s EXCEPT !.exitListeners = 0,
              !.log = Append(@, Ev("done", "", 0, FALSE, TRUE, s.canceled))]

RgOnHitLimit(s) ==
    LET s1 == RgCancelBody(s) IN
    [s1 EXCEPT !.exitListeners = 0,
               !.log = Append(@, Ev("done", "", 0, FALSE, TRUE, s.canceled))]

\* the marker loop of RipgrepParser.handleMatchLine over the n match runs of
\* a line: acc = [ranges, numResults, hitLimit]
RECURSIVE RgMatchLoop(_, _, _)
RgMatchLoop(i, n, acc) ==
    IF i > n THEN acc
    ELSE LET pushed == IF acc.hitLimit THEN acc.ranges ELSE acc.ranges + 1
             num == acc.numResults + 1
             hit == acc.hitLimit \/ (acc.maxResults > 0 /\ num >= acc.maxResults)
         IN RgMatchLoop(i + 1, n,
                [acc EXCEPT !.ranges = pushed, !.numResults = num, !.hitLimit = hit])

\* RipgrepParser.handleMatchLine for a line of n match runs
RgHandleMatchLine(s, n) ==
    IF s.fileMatch = <<>> /\ s.cfg.extra = 0
        THEN [s EXCEPT !.threw = TRUE]
        ELSE
            LET fm == IF s.fileMatch = <<>> THEN [f |-> ExtraFile, n |-> 0]
                      ELSE s.fileMatch[1]
                acc == RgMatchLoop(1, n, [ranges |-> 0, numResults |-> s.numResults,
                                          hitLimit |-> FALSE,
                                          maxResults |-> s.cfg.maxResults])
                s1 == [s EXCEPT !.fileMatch = <<[fm EXCEPT !.n = @ + acc.ranges]>>,
                                !.numResults = acc.numResults]
            IN IF acc.hitLimit
                   THEN RgOnHitLimit(RgParserOnResult([s1 EXCEPT !.pIsDone = TRUE]))
                   ELSE s1

\* a header that replaces the collected file without reporting it
RgHandleLine_noEmit(s, line) ==
    IF s.pIsDone THEN s
    ELSE LET s0 == [s EXCEPT !.parsed = @ + 1] IN
         IF line.t = "match" THEN RgHandleMatchLine(s0, line.n)
         ELSE [s0 EXCEPT !.fileMatch = <<[f |-> line.f, n |-> 0]>>]

\* one round of the line loop of RipgrepParser.handleDecodedData
RgHandleLine(s, line) ==
    IF s.pIsDone THEN s
    ELSE LET s0 == [s EXCEPT !.parsed = @ + 1] IN
         IF line.t = "match" THEN RgHandleMatchLine(s0, line.n)
         ELSE LET s1 == IF s0.fileMatch # <<>> THEN RgParserOnResult(s0) ELSE s0
              IN [s1 EXCEPT !.fileMatch = <<[f |-> line.f, n |-> 0]>>]

\* RipgrepParser.handleDecodedData for a chunk of complete lines; the throw of
\* handleMatchLine leaves the loop, so the rest of the chunk is dropped
RECURSIVE RgHandleLines(_, _)
RgHandleLines(s, lines) ==
    IF lines = <<>> THEN s
    ELSE LET s1 == RgHandleLine(s, Head(lines)) IN
         IF s1.threw /\ ~s.threw THEN s1
         ELSE RgHandleLines(s1, Tail(lines))

\* RipgrepParser.flush
RgFlush(s) ==
    IF s.fileMatch # <<>> THEN RgParserOnResult(s) ELSE s

\* the continuation without its `if (!this.isDone)` guard
RgCloseThen_unguarded(s) ==
    [s EXCEPT !.rgProc = "null", !.closeWaiting = FALSE,
              !.isDone = TRUE,
              !.exitListeners = 0,
              !.log = Append(@, Ev("done", "", 0,
                          (s.stderr = "fatal" /\ ~s.gotData), FALSE,
                          s.canceled))]

\* the continuation of the 'close' handler once resultsHandledP is fulfilled
RgCloseThen(s) ==
    LET s1 == [s EXCEPT !.rgProc = "null", !.closeWaiting = FALSE] IN
    IF s1.isDone THEN s1
    ELSE [s1 EXCEPT !.isDone = TRUE,
                    !.exitListeners = 0,
                    !.log = Append(@, Ev("done", "", 0,
                                (s.stderr = "fatal" /\ ~s.gotData), FALSE,
                                s.canceled))]

(***************************************************************************)
(*                    RAW SEARCH SERVICE: BatchedCollector                 *)
(*                                                                         *)
(* ripgrepTextSearch hands the engine's results to a BatchedCollector:     *)
(* until START_BATCH_AFTER_COUNT matches have been passed on every result  *)
(* is flushed at once; after that a batch is flushed when it is full, when *)
(* its timer fires, or when the engine calls done.                         *)
(***************************************************************************)
\* 50 in the source
START_BATCH_AFTER_COUNT == 1

\* SearchService.BATCH_SIZE, 512 in the source
BATCH_SIZE == 2

\* the files the child of a collected search prints
MaxFiles == 3

\* the calls of a collector that is driven on its own, and the largest size
\* given with an addition
MaxAdds == 3
MaxSize == 2

\* the collector right after `new BatchedCollector(maxBatchSize, cb)`; a
\* collector that is not on stands for callbacks that only record the calls
BcNew(on, maxBatchSize) ==
    [on |-> on,
     maxBatchSize |-> maxBatchSize,
     totalNumberCompleted |-> 0,
     batch |-> <<>>,
     batchSize |-> 0,
     timeoutHandle |-> FALSE,    \* this.timeoutHandle is not 0
     timerPending |-> FALSE,     \* the timer of timeoutHandle is set and
                                 \* has not fired
     timers |-> 0,               \* the timers that are set and have not fired
     afterFlush |-> FALSE,       \* the last thing the collector did was to
                                 \* return from flush()
     added |-> <<>>,             \* the items given to addItem / addItems
     delivered |-> <<>>,         \* the items given to cb, in order
     calls |-> <<>>]             \* the calls of cb: how many items, made by
                                 \* an addition, done, flush or the timer,
                                 \* after cancel?

BcIdle == BcNew(FALSE, 0)

\* BatchedCollector.flush
BcFlush(b, by, late) ==
    IF b.batchSize > 0
        THEN [b EXCEPT !.totalNumberCompleted = @ + b.batchSize,
                       !.calls = Append(@, [n |-> Len(b.batch), by |-> by, late |-> late]),
                       !.delivered = @ \o b.batch,
                       !.batch = <<>>,
                       !.batchSize = 0,
                       !.timeoutHandle = FALSE,
                       !.timerPending = FALSE,
                       !.timers = IF b.timeoutHandle /\ b.timerPending THEN @ - 1 ELSE @,
                       !.afterFlush = TRUE]
        ELSE [b EXCEPT !.afterFlush = TRUE]

\* BatchedCollector.onUpdate
BcOnUpdate(b, late) ==
    IF b.totalNumberCompleted < START_BATCH_AFTER_COUNT THEN BcFlush(b, "item", late)
    ELSE IF b.batchSize >= b.maxBatchSize THEN BcFlush(b, "item", late)
    ELSE IF ~b.timeoutHandle
        THEN [b EXCEPT !.timeoutHandle = TRUE, !.timerPending = TRUE,
                       !.timers = @ + 1, !.afterFlush = FALSE]
        ELSE [b EXCEPT !.afterFlush = FALSE]

\* BatchedCollector.addItems(items, size)
BcAddItems(b, items, size, late) ==
    LET b1 == [b EXCEPT !.added = @ \o items] IN
    IF b.maxBatchSize > 0
        THEN BcOnUpdate([b1 EXCEPT !.batch = @ \o items, !.batchSize = @ + size], late)
        ELSE [b1 EXCEPT !.calls = Append(@, [n |-> Len(items), by |-> "item", late |-> late]),
                        !.delivered = @ \o items,
                        !.afterFlush = FALSE]

\* BatchedCollector.addItem(match, match.numMatches)
BcAddItem(b, f, size, late) ==
    LET b1 == [b EXCEPT !.added = Append(@, f)] IN
    IF b.maxBatchSize > 0
        THEN BcOnUpdate([b1 EXCEPT !.batch = Append(@, f), !.batchSize = @ + size], late)
        ELSE [b1 EXCEPT !.calls = Append(@, [n |-> 1, by |-> "item", late |-> late]),
                        !.delivered = Append(@, f),
                        !.afterFlush = FALSE]

\* the callbacks ripgrepTextSearch gives to engine.search, applied to the
\* onResult and done calls the engine has made during one step
RECURSIVE BcFeed(_, _)
BcFeed(b, evs) ==
    IF evs = <<>> THEN b
    ELSE LET x == Head(evs) IN
         BcFeed(IF x.e = "result" THEN BcAddItem(b, x.f, x.n, x.late)
                ELSE BcFlush(b, "done", x.late),
                Tail(evs))

BcAfter(b, s, t) ==
    IF ~b.on THEN b
    ELSE BcFeed(b, SubSeq(t.log, Len(s.log) + 1, Len(t.log)))

(***************************************************************************)
(*                    TEXT SEARCH: the engine's handlers                   *)
(***************************************************************************)
\* RipgrepEngine.search
RgSearch ==
    /\ kind = "text"
    /\ rg.pc = "init"
    /\ rg' = IF rg.cfg.folders = 0 /\ rg.cfg.extra = 0
                THEN [rg EXCEPT !.pc = "returned",
                                !.exitListeners = 0,
                                !.log = Append(@, Ev("done", "", 0, FALSE, FALSE, rg.canceled))]
                ELSE [rg EXCEPT !.pc = "running",
                                !.rgProc = "set",
                                !.child = "running",
                                !.exitListeners = @ + 1,
                                !.hasParser = TRUE]
    /\ bc' = BcAfter(bc, rg, rg')
    /\ UNCHANGED <<kind, fw, svc, pl, ds, eq, ps, nt>>

\* rgProc.stdout 'data': the next c lines of the child's output
RgData ==
    /\ kind = "text"
    /\ rg.child = "running"
    /\ \E c \in 1..(Len(rg.cfg.output) - rg.pos) :
          LET lines == SubSeq(rg.cfg.output, rg.pos + 1, rg.pos + c)
              s0 == [rg EXCEPT !.pos = @ + c, !.gotData = TRUE, !.threw = FALSE]
          IN rg' = RgHandleLines(s0, lines)
    /\ bc' = BcAfter(bc, rg, rg')
    /\ UNCHANGED <<kind, fw, svc, pl, ds, eq, ps, nt>>

\* rgProc.stderr 'data': a line with a whitelisted fatal prefix, or another one
RgStderrData ==
    /\ kind = "text"
    /\ rg.child = "running"
    /\ rg.stderr = "none"
    /\ \E k \in {"fatal", "other"} : rg' = [rg EXCEPT !.stderr = k]
    /\ bc' = BcAfter(bc, rg, rg')
    /\ UNCHANGED <<kind, fw, svc, pl, ds, eq, ps, nt>>

\* rgProc 'close': the child has written all its output, or was signalled
RgClose ==
    /\ kind = "text"
    /\ rg.child = "running"
    /\ rg.pos = Len(rg.cfg.output) \/ rg.killed
    /\ LET s1 == RgFlush([rg EXCEPT !.child = "closed", !.pc = "closed"]) IN
       rg' = IF s1.handledFailed THEN s1
             ELSE IF s1.pending # <<>> THEN [s1 EXCEPT !.closeWaiting = TRUE]
             ELSE RgCloseThen(s1)
    /\ bc' = BcAfter(bc, rg, rg')
    /\ UNCHANGED <<kind, fw, svc, pl, ds, eq, ps, nt>>

\* a sibling lookup of the post-filter settles: the result is kept, dropped
\* (a sibling clause excludes it) or the directory listing fails
RgSiblingSettled ==
    /\ kind = "text"
    /\ \E i \in 1..Len(rg.pending), outcome \in {"keep", "drop", "fail"} :
          LET m == rg.pending[i]
              s0 == [rg EXCEPT !.pending = RemoveAt(@, i)]
              s1 == CASE outcome = "keep" ->
                            [s0 EXCEPT !.log = Append(@, Ev("result", m.f, m.n, FALSE, FALSE, rg.canceled))]
                      [] outcome = "drop" -> s0
                      [] OTHER -> [s0 EXCEPT !.handledFailed = TRUE]
          IN rg' = IF s1.closeWaiting /\ s1.pending = <<>> /\ ~s1.handledFailed
                      THEN RgCloseThen(s1)
                      ELSE s1
    /\ bc' = BcAfter(bc, rg, rg')
    /\ UNCHANGED <<kind, fw, svc, pl, ds, eq, ps, nt>>

\* RipgrepEngine.cancel, called by the owner of the engine
RgCancel ==
    /\ kind = "text"
    /\ rg' = RgCancelBody([rg EXCEPT !.canceled = TRUE, !.cancelThrew = FALSE])
    /\ bc' = BcAfter(bc, rg, rg')
    /\ UNCHANGED <<kind, fw, svc, pl, ds, eq, ps, nt>>

(***************************************************************************)
(*                    TEXT SEARCH: the parser fed with chunks              *)
(*                                                                         *)
(* The stream is a sequence of tokens: "E" is the marker ESC[0m, "d" a     *)
(* line number, ":" the colon, "m" one marked match (start marker, text,   *)
(* end marker), a file name stands for the text of a path, "\r" and "\n"   *)
(* are themselves.  Chunks are cut between tokens; a cut inside a token is *)
(* carried over in remainder the same way.                                 *)
(***************************************************************************)
\* the lines of a stream of the parser
MaxStreamLines == 3

PsHeader(f) == <<"E", f, "E">>

PsResult(n) == <<"E", "d", "E", ":">> \o [i \in 1..n |-> "m"]

PsLineTexts ==
    {PsHeader("f1"), PsHeader("f2"), <<>>}
        \cup {PsResult(n) : n \in 1..MaxMatchesPerLine}

PsTerminators == {<<"\n">>, <<"\r", "\n">>}

\* the streams of up to n lines, each with one of the terminators
RECURSIVE PsTerminated(_)
PsTerminated(n) ==
    IF n = 0 THEN {<<>>}
    ELSE LET shorter == PsTerminated(n - 1) IN
         shorter \cup {s \o l \o t : s \in shorter, l \in PsLineTexts, t \in PsTerminators}

\* the child's output: terminated lines, and when the child is cut short a
\* last line without its terminator
PsStreams ==
    PsTerminated(MaxStreamLines)
        \cup {s \o l : s \in PsTerminated(MaxStreamLines - 1), l \in PsLineTexts \ {<<>>}}

\* dataStr.split(/\r\n|\n/): the pieces between the separators, the piece
\* after the last separator included (acc: the pieces so far, cur: the piece
\* being read)
RECURSIVE PsSplit(_, _, _)
PsSplit(str, acc, cur) ==
    IF str = <<>> THEN Append(acc, cur)
    ELSE IF str[1] = "\n" THEN PsSplit(Tail(str), Append(acc, cur), <<>>)
    ELSE IF str[1] = "\r" /\ Len(str) >= 2 /\ str[2] = "\n"
        THEN PsSplit(Tail(Tail(str)), Append(acc, cur), <<>>)
    ELSE PsSplit(Tail(str), acc, Append(cur, str[1]))

\* String.prototype.trim: "\r" is the white space of the streams
RECURSIVE PsTrim(_)
PsTrim(l) ==
    IF l = <<>> THEN l
    ELSE IF l[1] = "\r" THEN PsTrim(Tail(l))
    ELSE IF l[Len(l)] = "\r" THEN PsTrim(SubSeq(l, 1, Len(l) - 1))
    ELSE l

\* the two regular expressions of the line loop: RESULT_REGEX is tried
\* first, then FILE_REGEX; anything else is skipped
PsClassify(l) ==
    IF Len(l) >= 4 /\ l[1] = "E" /\ l[2] = "d" /\ l[3] = "E" /\ l[4] = ":"
        THEN MatchLine(Cardinality({i \in 5..Len(l) : l[i] = "m"}))
    ELSE IF Len(l) >= 3 /\ l[1] = "E" /\ l[Len(l)] = "E"
                /\ \A i \in 1..Len(l) : l[i] \notin {"\r", "\n"}
        THEN FileLine(IF Len(l) = 3 THEN l[2] ELSE SubSeq(l, 2, Len(l) - 1))
    ELSE [t |-> "other", f |-> "", n |-> 0]

\* the line loop of RipgrepParser.handleDecodedData over the split pieces;
\* the throw of handleMatchLine leaves the loop
RECURSIVE PsLineLoop(_, _)
PsLineLoop(s, dataLines) ==
    IF dataLines = <<>> THEN s
    ELSE LET line == PsClassify(PsTrim(Head(dataLines)))
             s1 == IF line.t = "other" THEN s ELSE RgHandleLine(s, line)
         IN IF s1.threw /\ ~s.threw THEN s1
            ELSE PsLineLoop(s1, Tail(dataLines))

\* the parser: the engine's record (its parser fields and the handlers of
\* the parser's events) and the carried-over remainder (<<>> is null)
PsNew(stream, extra, maxResults) ==
    [stream |-> stream,
     pos |-> 0,                  \* tokens handed to handleData so far
     remainder |-> <<>>,
     flushed |-> FALSE,          \* flush() has been called
     everThrew |-> FALSE,        \* a call of handleData has thrown
     eng |-> [RgNew([folders |-> 1, extra |-> extra, maxResults |-> maxResults,
                     sibling |-> FALSE, output |-> <<>>])
                EXCEPT !.pc = "running", !.rgProc = "set", !.child = "running",
                       !.exitListeners = 1, !.hasParser = TRUE]]

PsIdle == PsNew(<<>>, 0, 0)

\* RipgrepParser.handleDecodedData
PsHandleDecodedData(p, decodedData) ==
    LET dataStr == p.remainder \o decodedData
        pieces == PsSplit(dataStr, <<>>, <<>>)
        last == pieces[Len(pieces)]
        dataLines == IF last # <<>> THEN SubSeq(pieces, 1, Len(pieces) - 1) ELSE pieces
        eng1 == PsLineLoop([p.eng EXCEPT !.threw = FALSE], dataLines)
    IN [p EXCEPT !.remainder = last,
                 !.eng = eng1,
                 !.everThrew = @ \/ eng1.threw]

\* RipgrepParser.handleData(data)
PsHandleData(p, data) ==
    PsHandleDecodedData([p EXCEPT !.pos = @ + Len(data)], data)

\* RipgrepParser.flush: the decoder has nothing left, stringDecoder.end()
\* is the empty string
PsFlushBody(p) ==
    LET p1 == PsHandleDecodedData(p, <<>>) IN
    [p1 EXCEPT !.eng = IF p1.eng.threw THEN @ ELSE RgFlush(@), !.flushed = TRUE]

\* the parser's 'result' events and whether 'hitLimit' followed the last
PsEvents(p) ==
    [results |-> [i \in 1..Len(p.eng.emitted) |->
                     [f |-> p.eng.emitted[i].f, n |-> p.eng.emitted[i].n]],
     hitLimit |-> \E i \in 1..Len(p.eng.log) : p.eng.log[i].e = "done" /\ p.eng.log[i].limitHit]

\* the whole stream handed over as one chunk and flushed
PsWhole(p) ==
    PsFlushBody(PsHandleData(PsNew(p.stream, p.eng.cfg.extra, p.eng.cfg.maxResults), p.stream))

\* stdout 'data': the next c tokens of the stream
PsData ==
    /\ kind = "parse"
    /\ ~ps.flushed
    /\ \E c \in 1..(Len(ps.stream) - ps.pos) :
          ps' = PsHandleData(ps, SubSeq(ps.stream, ps.pos + 1, ps.pos + c))
    /\ UNCHANGED <<kind, rg, fw, svc, pl, ds, eq, bc, nt>>

\* 'close': the stream has ended, the parser is flushed
PsFlush ==
    /\ kind = "parse"
    /\ ~ps.flushed
    /\ ps.pos = Len(ps.stream)
    /\ ps' = PsFlushBody(ps)
    /\ UNCHANGED <<kind, rg, fw, svc, pl, ds, eq, bc, nt>>

(***************************************************************************)
(*                    TEXT SEARCH: one result line                         *)
(*                                                                         *)
(* The text of a result line, after the line number, is a sequence of      *)
(* characters in which rg has wrapped every match in a start and an end    *)
(* marker.  Positions are counted from 0 as in the source.                 *)
(***************************************************************************)
MaxTokens == 4

\* the character \u001b
Esc == "e"

MATCH_START_MARKER == <<Esc, "[", "0", "m", Esc, "[", "3", "1", "m">>

MATCH_END_MARKER == <<Esc, "[", "0", "m">>

\* what a result line is made of: a start marker, an end marker, or a
\* character of the searched file's line
PlTokens == {"S", "E", "c"}

RECURSIVE PlExpand(_)
PlExpand(tokens) ==
    IF tokens = <<>> THEN <<>>
    ELSE (CASE Head(tokens) = "S" -> MATCH_START_MARKER
            [] Head(tokens) = "E" -> MATCH_END_MARKER
            [] OTHER -> <<Head(tokens)>>) \o PlExpand(Tail(tokens))

\* String.prototype.slice(from, to)
JsSlice(str, from, to) ==
    LET n == Len(str)
        a == IF from < 0 THEN (IF n + from < 0 THEN 0 ELSE n + from) ELSE Min(from, n)
        b == IF to < 0 THEN (IF n + to < 0 THEN 0 ELSE n + to) ELSE Min(to, n)
    IN IF a < b THEN SubSeq(str, a + 1, b) ELSE <<>>

\* String.prototype.substr(from, length), from >= 0
JsSubstr(str, from, length) == SubSeq(str, from + 1, Min(from + length, Len(str)))

\* the text handleDecodedData hands to handleMatchLine: group 2 of
\* RESULT_REGEX, which ends before the first \r of the line, with an end
\* marker appended when there is such a \r (group 3)
PlMatchText(tokens, cr) ==
    IF cr THEN PlExpand(tokens) \o MATCH_END_MARKER ELSE PlExpand(tokens)

\* the locals of handleMatchLine before its loop
PlLocals(numResults) ==
    [lastMatchEndPos |-> 0, matchTextStartPos |-> -1, matchTextStartRealIdx |-> -1,
     textRealIdx |-> 0, hitLimit |-> FALSE, matchRanges |-> <<>>,
     realTextParts |-> <<>>, numResults |-> numResults]

\* the loop of handleMatchLine over text from position i; maxResults = 0
\* stands for a parser constructed without maxResults
RECURSIVE PlScan(_, _, _, _)
PlScan(text, maxResults, i, v) ==
    IF ~(i < Len(text) - (Len(MATCH_END_MARKER) - 1)) THEN v
    ELSE IF JsSubstr(text, i, Len(MATCH_START_MARKER)) = MATCH_START_MARKER
        THEN PlScan(text, maxResults, i + Len(MATCH_START_MARKER),
                 [v EXCEPT !.realTextParts = @ \o JsSlice(text, v.lastMatchEndPos, i),
                           !.matchTextStartPos = i + Len(MATCH_START_MARKER),
                           !.matchTextStartRealIdx = v.textRealIdx])
    ELSE IF JsSubstr(text, i, Len(MATCH_END_MARKER)) = MATCH_END_MARKER
        THEN PlScan(text, maxResults, i + Len(MATCH_END_MARKER),
                 [v EXCEPT !.realTextParts = @ \o JsSlice(text, v.matchTextStartPos, i),
                           !.matchRanges =
                               IF v.hitLimit THEN @
                               ELSE Append(@, [startCol |-> v.matchTextStartRealIdx,
                                               endCol |-> v.textRealIdx]),
                           !.matchTextStartPos = -1,
                           !.matchTextStartRealIdx = -1,
                           !.lastMatchEndPos = i + Len(MATCH_END_MARKER),
                           !.numResults = @ + 1,
                           !.hitLimit = @ \/ (maxResults > 0
                                                /\ v.numResults + 1 >= maxResults)])
    ELSE PlScan(text, maxResults, i + 1, [v EXCEPT !.textRealIdx = @ + 1])

\* RipgrepParser.handleMatchLine: the ranges and the preview of a result line
\* (the first definition leaves out the text after the last match)
PlHandleMatchLine_noTail(text, maxResults) ==
    LET v == PlScan(text, maxResults, 0, PlLocals(0))
    IN [matchRanges |-> v.matchRanges,
        preview |-> v.realTextParts,
        hitLimit |-> v.hitLimit]

PlHandleMatchLine(text, maxResults) ==
    LET v == PlScan(text, maxResults, 0, PlLocals(0))
    IN [matchRanges |-> v.matchRanges,
        preview |-> v.realTextParts \o JsSlice(text, v.lastMatchEndPos, Len(text)),
        hitLimit |-> v.hitLimit]

\* a result line before the parser has seen it
PlNew(tokens, cr, maxResults) ==
    [pc |-> "line", tokens |-> tokens, cr |-> cr, maxResults |-> maxResults,
     matchRanges |-> <<>>, preview |-> <<>>, hitLimit |-> FALSE]

PlIdle == PlNew(<<>>, FALSE, 0)

\* handleDecodedData finds that the line matches RESULT_REGEX and calls
\* handleMatchLine
PlParse ==
    /\ kind = "line"
    /\ pl.pc = "line"
    /\ LET out == PlHandleMatchLine(PlMatchText(pl.tokens, pl.cr), pl.maxResults)
       IN pl' = [pl EXCEPT !.pc = "parsed",
                           !.matchRanges = out.matchRanges,
                           !.preview = out.preview,
                           !.hitLimit = out.hitLimit]
    /\ UNCHANGED <<kind, rg, fw, svc, ds, eq, bc, ps, nt>>

(***************************************************************************)
(*                    STRINGS AND PATHS                                    *)
(*                                                                         *)
(* A string is a sequence of one-character strings; a relative path uses   *)
(* "/" as its separator.                                                   *)
(***************************************************************************)
Sep == "/"

Dot == <<".">>

\* strings.startsWith
StartsWith(s, p) == Len(p) <= Len(s) /\ SubSeq(s, 1, Len(p)) = p

\* String.indexOf(ch, from) with 1-based positions; 0 when ch is absent
IndexOfFrom(s, ch, from) ==
    LET hits == {i \in from..Len(s) : s[i] = ch} IN
    IF hits = {} THEN 0 ELSE CHOOSE i \in hits : \A j \in hits : i <= j

LastIndexOf(s, ch) ==
    LET hits == {i \in 1..Len(s) : s[i] = ch} IN
    IF hits = {} THEN 0 ELSE CHOOSE i \in hits : \A j \in hits : i >= j

HasPathSep(s) == IndexOfFrom(s, Sep, 1) > 0

\* path.basename / path.dirname of a relative path
Basename(p) == SubSeq(p, LastIndexOf(p, Sep) + 1, Len(p))

Dirname(p) == IF LastIndexOf(p, Sep) = 0 THEN Dot ELSE SubSeq(p, 1, LastIndexOf(p, Sep) - 1)

\* strings.stripWildcards: every "*" removed
StripWildcards(s) == SelectSeq(s, LAMBDA ch : ch # "*")

\* strings.fuzzyContains: the characters of query occur in target in order
RECURSIVE FuzzyFrom(_, _, _, _)
FuzzyFrom(target, query, index, lastIndexOf) ==
    IF index > Len(query) THEN TRUE
    ELSE LET at == IndexOfFrom(target, query[index], lastIndexOf + 1) IN
         IF at = 0 THEN FALSE ELSE FuzzyFrom(target, query, index + 1, at)

FuzzyContains(target, query) ==
    /\ target # <<>>
    /\ query # <<>>
    /\ Len(target) >= Len(query)
    /\ FuzzyFrom(target, query, 1, 0)

\* the include expression {"*.j": true} of the model: a basename ending in ".j"
EndsWithExt(b, ext) == Len(b) >= 2 /\ b[Len(b) - 1] = "." /\ b[Len(b)] = ext

IncludeGlob(relativePath, basename) == EndsWithExt(basename, "j")

\* the sibling clause {"*.j": {when: "$(basename).t"}} of the model: x.j is
\* excluded when x.t is among the names hasSibling knows
SiblingName(b) == SubSeq(b, 1, Len(b) - 1) \o <<"t">>

SiblingClause(basename, siblings) ==
    EndsWithExt(basename, "j") /\ SiblingName(basename) \in siblings

(***************************************************************************)
(*                    FILE SEARCH: FileWalker                              *)
(***************************************************************************)
P_at == <<"a", ".", "t">>
P_aj == <<"a", ".", "j">>
P_bj == <<"b", ".", "j">>
P_dbj == <<"d", "/", "b", ".", "j">>
P_xj == <<"/", "x", ".", "j">>

\* the files larger than the query's maxFilesize, when it has one
FwBigFiles == {P_bj}

\* the file listings a root folder of the model may have, in the order in
\* which a backend lists them
FwListings ==
    {<<>>, <<P_at>>, <<P_at, P_aj>>, <<P_aj, P_dbj, P_bj>>}

\* the folder roots of a query: none, one, or two
FwRootSets ==
    {<<>>} \cup {<<l>> : l \in FwListings}
           \cup {<<P_at, P_aj>>} \X {<<P_at>>, <<P_aj, P_dbj, P_bj>>}

FwPatterns == {<<>>, <<"b">>, P_aj, P_bj}

FwConfigs ==
    [roots : FwRootSets,
     extra : {<<>>, <<P_xj>>},
     filePattern : FwPatterns,
     include : BOOLEAN,
     maxResults : 0..MaxK,
     exists : BOOLEAN,
     useRipgrep : BOOLEAN,
     maxFilesize : BOOLEAN,
     sibling : BOOLEAN]

\* FileWalker.walk, the choice of the traversal
FwTraversal(c) ==
    IF c.maxFilesize THEN "Node"
    ELSE IF c.useRipgrep THEN "Ripgrep"
    ELSE "Find"

\* what the child of root r prints: rg is given the include globs, find is not
FwChildOutput(c, r) ==
    IF c.useRipgrep /\ c.include
        THEN SelectSeq(c.roots[r], LAMBDA p : IncludeGlob(p, Basename(p)))
        ELSE c.roots[r]

FwRootNew ==
    [child |-> "none",        \* none | running | errored | closed
     killed |-> FALSE,        \* killCmd() has signalled the child
     pos |-> 0,               \* lines of the child's output delivered so far
     gotData |-> FALSE,
     code |-> -2,             \* the exit code 'close' carried (-2: no 'close' yet)
     onDataOff |-> FALSE,     \* collectStdout: onData was replaced by a no-op
     done |-> FALSE,          \* cmdTraversal: done was replaced by a no-op
     exitListener |-> FALSE,  \* process.on('exit', killCmd) is registered
     tree |-> <<>>,           \* the paths added to the directory tree
     ops |-> {},              \* native traversal: the file system calls in flight
     walkedPaths |-> {}]      \* native traversal: FileWalker.walkedPaths

\* the walker right after `new FileWalker(config)`
FwNew(c) ==
    [pc |-> "init",           \* init | walking | done
     cfg |-> c,
     isCanceled |-> FALSE,
     isLimitHit |-> FALSE,
     resultCount |-> 0,
     roots |-> [r \in 1..Len(c.roots) |-> FwRootNew],
     doneCount |-> 0,         \* flow.parallel: callbacks received
     didErrorOccur |-> FALSE, \* flow.parallel: one of them carried an error
     errors |-> 0,            \* FileWalker.errors.length
     log |-> <<>>]            \* onResult / done calls, in order

\* FileWalker.isFilePatternMatch
FwIsFilePatternMatch(c, path) ==
    IF c.filePattern # <<>>
        THEN IF c.filePattern = <<"*">> THEN TRUE
             ELSE FuzzyContains(path, StripWildcards(c.filePattern))
        ELSE TRUE

\* the two gates of FileWalker.matchFile
FwGates(c, relativePath) ==
    /\ FwIsFilePatternMatch(c, relativePath)
    /\ (~c.include \/ IncludeGlob(relativePath, Basename(relativePath)))

\* the test with `>=` in the place of `>`
FwOverLimit_ge(c, resultCount) ==
    c.exists \/ (c.maxResults > 0 /\ resultCount >= c.maxResults)

\* the test of FileWalker.matchFile that sets the limit flag
FwOverLimit(c, resultCount) ==
    c.exists \/ (c.maxResults > 0 /\ resultCount > c.maxResults)

\* FileWalker.matchFile; r is the root of the candidate, 0 for an extra file
FwMatchFile(s, r, relativePath) ==
    IF FwGates(s.cfg, relativePath)
        THEN LET n == s.resultCount + 1
                 hit == s.isLimitHit \/ FwOverLimit(s.cfg, n)
             IN [s EXCEPT !.resultCount = n,
                          !.isLimitHit = hit,
                          !.log = IF hit THEN @
                                  ELSE Append(@, Ev("result", relativePath, r, FALSE, FALSE,
                                                    s.isCanceled))]
        ELSE s

\* the final callback of flow.parallel in FileWalker.walk
FwWalkDone(s) ==
    [s EXCEPT !.pc = "done",
              !.log = Append(@, Ev("done", <<>>, 0, s.didErrorOccur, s.isLimitHit,
                                   s.isCanceled))]

\* rootFolderDone: the per-root callback of walk, counted by flow.parallel
FwRootFolderDone(s, err) ==
    LET s1 == [s EXCEPT !.doneCount = @ + 1,
                        !.didErrorOccur = @ \/ err,
                        !.errors = IF err THEN @ + 1 ELSE @]
    IN IF s1.doneCount = Len(s.cfg.roots) THEN FwWalkDone(s1) ELSE s1

\* a `done` that calls cb every time
FwCmdDone_noGuard(s, r, err) ==
    FwRootFolderDone([s EXCEPT !.roots[r].done = TRUE,
                               !.roots[r].exitListener = FALSE], err)

\* cmdTraversal: the guarded `done` of root r
FwCmdDone(s, r, err) ==
    IF s.roots[r].done THEN s
    ELSE FwRootFolderDone([s EXCEPT !.roots[r].done = TRUE,
                                    !.roots[r].exitListener = FALSE], err)

\* cmdTraversal: the loop over the lines of a chunk when rg streams directly
RECURSIVE FwStreamLines(_, _, _)
FwStreamLines(s, r, lines) ==
    IF lines = <<>> THEN s
    ELSE LET s1 == FwMatchFile(s, r, Head(lines)) IN
         IF s1.isLimitHit
             THEN [s1 EXCEPT !.roots[r].killed = TRUE]
             ELSE FwStreamLines(s1, r, Tail(lines))

\* FileWalker.addDirectoryEntries
FwAddDirectoryEntries(s, r, lines) ==
    LET s1 == IF \E i \in 1..Len(lines) : lines[i] = s.cfg.filePattern
                 THEN FwMatchFile(s, r, s.cfg.filePattern)
                 ELSE s
    IN [s1 EXCEPT !.roots[r].tree = @ \o lines]

\* the entry of directory dir that leads to file f: f itself, or the
\* sub-directory of dir that holds it
FwChildOf(dir, f) ==
    LET from == IF dir = Dot THEN 1 ELSE Len(dir) + 2
        next == IndexOfFrom(f, Sep, from)
    IN IF next = 0 THEN f ELSE SubSeq(f, 1, next - 1)

FwIsUnder(dir, f) == dir = Dot \/ StartsWith(f, dir \o <<Sep>>)

\* a sequence without its repeated elements, first occurrences kept
RECURSIVE Dedupe(_)
Dedupe(q) ==
    IF q = <<>> THEN <<>>
    ELSE LET init == Dedupe(SubSeq(q, 1, Len(q) - 1))
             last == q[Len(q)]
         IN IF \E i \in 1..Len(init) : init[i] = last THEN init ELSE Append(init, last)

\* pathToEntries[dir] of the tree built from the paths in files
FwEntries(dir, files) ==
    LET under == SelectSeq(files, LAMBDA f : FwIsUnder(dir, f))
    IN Dedupe([i \in 1..Len(under) |-> FwChildOf(dir, under[i])])

FwIsDirectory(p, files) == \E i \in 1..Len(files) : StartsWith(files[i], p \o <<Sep>>)

\* AbsoluteAndRelativeParsedExpression.test for the folder's exclude
\* expression; names is what hasSibling knows, or absent (<<>> for undefined)
FwExcluded(c, basename, hasSibling, names) ==
    c.sibling /\ hasSibling /\ SiblingClause(basename, names)

\* FileWalker.matchDirectoryTree, the loop of matchDirectory over entries
RECURSIVE FwMatchDirectory(_, _, _, _)
FwMatchDirectory(s, r, entries, i) ==
    IF i > Len(entries) THEN s
    ELSE
        LET relativePath == entries[i]
            basename == Basename(relativePath)
            names == {Basename(entries[j]) : j \in 1..Len(entries)}
            files == s.roots[r].tree
        IN IF FwExcluded(s.cfg, basename, s.cfg.filePattern # basename, names)
               THEN FwMatchDirectory(s, r, entries, i + 1)
           ELSE
               LET s1 == IF FwIsDirectory(relativePath, files)
                            THEN FwMatchDirectory(s, r, FwEntries(relativePath, files), 1)
                         ELSE IF relativePath = s.cfg.filePattern THEN s
                         ELSE FwMatchFile(s, r, relativePath)
               IN IF s1.isLimitHit /\ (FwIsDirectory(relativePath, files)
                                        \/ relativePath # s.cfg.filePattern)
                      THEN s1
                      ELSE FwMatchDirectory(s1, r, entries, i + 1)

\* cmdTraversal: the callback given to collectStdout, for root r
FwCmdChunk(s, r, err, lines, last) ==
    IF err THEN FwCmdDone(s, r, TRUE)
    ELSE IF s.isLimitHit THEN FwCmdDone(s, r, FALSE)
    ELSE IF s.cfg.useRipgrep /\ ~s.cfg.sibling
        THEN LET s1 == FwStreamLines(s, r, lines) IN
             IF last \/ s1.isLimitHit THEN FwCmdDone(s1, r, FALSE) ELSE s1
    ELSE LET s1 == FwAddDirectoryEntries(s, r, lines) IN
         IF last
             THEN FwCmdDone(FwMatchDirectory(s1, r, FwEntries(Dot, s1.roots[r].tree), 1),
                            r, FALSE)
             ELSE s1

\* collectStdout: the guarded onData of root r
FwOnData(s, r, err, lines, last) ==
    IF s.roots[r].onDataOff THEN s
    ELSE FwCmdChunk([s EXCEPT !.roots[r].onDataOff = (err \/ last)], r, err, lines, last)

\* an asynchronous file system call of the native traversal
FwOp(op, path) == [op |-> op, path |-> path]

\* nodeJSTraversal / doWalk: the traversal of root r is complete when no file
\* system call of it is in flight any more
FwNodeSettle(s, r) ==
    IF s.roots[r].ops = {} /\ ~s.roots[r].done
        THEN FwRootFolderDone([s EXCEPT !.roots[r].done = TRUE], FALSE)
        ELSE s

\* FileWalker.doWalk up to its first suspension: the loop over the names of
\* directory dir, which starts an lstat for every name that is not excluded
FwDoWalk(s, r, dir) ==
    LET entries == FwEntries(dir, s.cfg.roots[r])
        names == {Basename(entries[j]) : j \in 1..Len(entries)}
        started == {entries[j] : j \in {k \in 1..Len(entries) :
                        /\ ~(s.isCanceled \/ s.isLimitHit)
                        /\ ~FwExcluded(s.cfg, Basename(entries[k]),
                                       s.cfg.filePattern # Basename(entries[k]), names)}}
    IN [s EXCEPT !.roots[r].ops = @ \cup {FwOp("lstat", q) : q \in started}]

\* the callback of fs.lstat in doWalk, for path p of root r
FwLstatDone(s, r, p) ==
    IF s.isCanceled \/ s.isLimitHit THEN s
    ELSE IF FwIsDirectory(p, s.cfg.roots[r])
        THEN IF p \in s.roots[r].walkedPaths THEN s
             ELSE [s EXCEPT !.roots[r].walkedPaths = @ \cup {p},
                            !.roots[r].ops = @ \cup {FwOp("readdir", p)}]
    ELSE IF p = s.cfg.filePattern THEN s
    ELSE IF s.cfg.maxFilesize /\ p \in FwBigFiles THEN s
    ELSE FwMatchFile(s, r, p)

\* the callback of extfs.readdir, in nodeJSTraversal (dir = Dot) and in doWalk
FwReaddirDone(s, r, dir) ==
    IF s.isCanceled \/ s.isLimitHit THEN s
    ELSE FwDoWalk(s, r, dir)

\* FileWalker.walk up to its first suspension
FwWalkStart(s) ==
    LET n == Len(s.cfg.roots)
        RECURSIVE Extras(_, _)
        Extras(t, i) ==
            IF i > Len(s.cfg.extra) THEN t
            ELSE Extras(FwMatchFile(t, 0, s.cfg.extra[i]), i + 1)
        s1 == Extras(s, 1)
        s2 == [s1 EXCEPT !.pc = "walking",
                         !.roots = [r \in 1..n |->
                             IF FwTraversal(s.cfg) = "Node"
                                 THEN [@[r] EXCEPT !.ops = {FwOp("readdir", Dot)}]
                                 ELSE [@[r] EXCEPT !.child = "running",
                                                   !.exitListener = TRUE]]]
    IN IF s.isCanceled THEN FwWalkDone(s)
       ELSE IF n = 0 THEN FwWalkDone(s1)
       ELSE s2

FwWalk ==
    /\ kind = "walk"
    /\ fw.pc = "init"
    /\ fw' = FwWalkStart(fw)
    /\ UNCHANGED <<kind, rg, svc, pl, ds, eq, bc, ps, nt>>

\* cmd.stdout 'data' of root r: the next c lines of the child's output
FwData ==
    /\ kind = "walk"
    /\ \E r \in 1..Len(fw.cfg.roots) :
          /\ fw.roots[r].child = "running"
          /\ \E c \in 1..(Len(FwChildOutput(fw.cfg, r)) - fw.roots[r].pos) :
                LET lines == SubSeq(FwChildOutput(fw.cfg, r),
                                    fw.roots[r].pos + 1, fw.roots[r].pos + c)
                    s0 == [fw EXCEPT !.roots[r].pos = @ + c, !.roots[r].gotData = TRUE]
                IN fw' = FwOnData(s0, r, FALSE, lines, FALSE)
    /\ UNCHANGED <<kind, rg, svc, pl, ds, eq, bc, ps, nt>>

\* cmd 'error' of root r: the child could not be started, or has failed
\* after it had written some output; its 'close' is still to come
FwChildError ==
    /\ kind = "walk"
    /\ \E r \in 1..Len(fw.cfg.roots) :
          /\ fw.roots[r].child = "running"
          /\ ~fw.roots[r].killed
          /\ fw' = FwOnData([fw EXCEPT !.roots[r].child = "errored"], r, TRUE, <<>>, FALSE)
    /\ UNCHANGED <<kind, rg, svc, pl, ds, eq, bc, ps, nt>>

\* the exit code of the child of root r: rg --files exits with 0 when it
\* listed a file and with 1 when it listed none, find with 0; a child that
\* failed exits with 2, a signalled child has no code (-1)
FwExitCode(s, r, failed) ==
    IF failed THEN 2
    ELSE IF s.roots[r].pos < Len(FwChildOutput(s.cfg, r)) THEN -1
    ELSE IF ~s.cfg.useRipgrep THEN 0
    ELSE IF FwChildOutput(s.cfg, r) # <<>> THEN 0 ELSE 1

\* collectStdout: the handler of cmd 'close', for root r
FwCloseHandler(s, r, code, fatalStderr) ==
    IF (IF s.cfg.useRipgrep THEN ~s.roots[r].gotData /\ fatalStderr ELSE code # 0)
        THEN FwOnData(s, r, TRUE, <<>>, FALSE)
        ELSE LET s1 == IF s.cfg.useRipgrep /\ s.cfg.exists /\ code = 0
                          THEN [s EXCEPT !.isLimitHit = TRUE]
                          ELSE s
             IN FwOnData(s1, r, FALSE, <<>>, TRUE)

\* cmd 'close' of root r: the child has written all its output, has failed
\* (rg: before any output; its stderr begins with a whitelisted message, or
\* with another one), or was signalled
FwClose ==
    /\ kind = "walk"
    /\ \E r \in 1..Len(fw.cfg.roots), failed \in BOOLEAN, fatal \in BOOLEAN :
          /\ fw.roots[r].child \in {"running", "errored"}
          /\ fw.roots[r].pos = Len(FwChildOutput(fw.cfg, r)) \/ fw.roots[r].killed \/ failed
          /\ failed => ~fw.roots[r].killed
          /\ (failed /\ fw.cfg.useRipgrep /\ fw.roots[r].child = "running")
                => fw.roots[r].pos = 0
          /\ fw.roots[r].child = "errored" => failed
          /\ fatal => failed
          /\ fw' = FwCloseHandler([fw EXCEPT !.roots[r].child = "closed",
                                             !.roots[r].code = FwExitCode(fw, r, failed)],
                                  r, FwExitCode(fw, r, failed), fatal)
    /\ UNCHANGED <<kind, rg, svc, pl, ds, eq, bc, ps, nt>>

\* a file system call of the native traversal of root r calls back
FwNodeStep ==
    /\ kind = "walk"
    /\ \E r \in 1..Len(fw.cfg.roots) :
          \E o \in fw.roots[r].ops :
             LET s0 == [fw EXCEPT !.roots[r].ops = @ \ {o}]
                 s1 == IF o.op = "lstat" THEN FwLstatDone(s0, r, o.path)
                       ELSE FwReaddirDone(s0, r, o.path)
             IN fw' = FwNodeSettle(s1, r)
    /\ UNCHANGED <<kind, rg, svc, pl, ds, eq, bc, ps, nt>>

\* FileWalker.cancel (Engine.cancel)
FwCancel ==
    /\ kind = "walk"
    /\ fw' = [fw EXCEPT !.isCanceled = TRUE]
    /\ UNCHANGED <<kind, rg, svc, pl, ds, eq, bc, ps, nt>>

\* a complete, undisturbed run of a walker with the command traversal: every
\* child delivers its whole output and closes normally, one root after another
FwRun(c) ==
    LET RECURSIVE Roots(_, _)
        Roots(s, r) ==
            IF r > Len(c.roots) THEN s
            ELSE LET out == FwChildOutput(c, r)
                     s1 == IF out = <<>> THEN s
                           ELSE FwOnData([s EXCEPT !.roots[r].pos = Len(out),
                                                   !.roots[r].gotData = TRUE],
                                         r, FALSE, out, FALSE)
                     s2 == FwCloseHandler([s1 EXCEPT !.roots[r].child = "closed"], r,
                                          FwExitCode(s1, r, FALSE), FALSE)
                 IN Roots(s2, r + 1)
    IN Roots(FwWalkStart(FwNew(c)), 1)

\* the relative paths handed to onResult, in order
FwResultPaths(log) ==
    LET res == SelectSeq(log, LAMBDA x : x.e = "result")
    IN [i \in 1..Len(res) |-> res[i].f]

(***************************************************************************)
(*                    FILE SEARCH: native traversal and links              *)
(*                                                                         *)
(* The directories of a file system: the root folder R and two more, each  *)
(* a child of another or outside the root folder, and symbolic links from  *)
(* a directory to a directory.  A path is the sequence of the entries      *)
(* walked from the root folder; an entry names the directory it leads to   *)
(* and says whether it is a link.                                          *)
(***************************************************************************)
\* the symbolic links of a file system
MaxLinks == 2

NtDirs == {"R", "A", "B"}

NtEntry(n, l) == [n |-> n, l |-> l]

NtFileSystems ==
    {[parent |-> [d \in {"A", "B"} |-> IF d = "A" THEN pa ELSE pb], links |-> ls] :
        pa \in {"R", "none"}, pb \in {"R", "A", "none"},
        ls \in {x \in SUBSET (NtDirs \X NtDirs) : Cardinality(x) <= MaxLinks}}

\* fs.realpath: the path of a directory without any link
RECURSIVE NtRealpath(_, _)
NtRealpath(f, d) ==
    IF d = "R" \/ f.parent[d] = "none" THEN <<NtEntry(d, FALSE)>>
    ELSE Append(NtRealpath(f, f.parent[d]), NtEntry(d, FALSE))

\* extfs.readdir: the entries of directory d
NtReaddir(f, d) ==
    {NtEntry(c, FALSE) : c \in {x \in {"A", "B"} : f.parent[x] = d}}
        \cup {NtEntry(l[2], TRUE) : l \in {x \in f.links : x[1] = d}}

NtOp(op, path) == [op |-> op, path |-> path]

\* the walker of one root folder right after `new FileWalker(config)`
NtNew(f) ==
    [fs |-> f,
     pc |-> "init",           \* init | walking | done
     ops |-> {},              \* the file system calls in flight
     walkedPaths |-> {},      \* FileWalker.walkedPaths
     listed |-> [d \in NtDirs |-> 0]]   \* how often readdir has listed d

NtIdle == NtNew([parent |-> [d \in {"A", "B"} |-> "none"], links |-> {}])

\* FileWalker.realPathIfNeeded for the entry at the end of path p
NtRealPathIfNeeded(s, p) ==
    IF p[Len(p)].l THEN NtRealpath(s.fs, p[Len(p)].n) ELSE p

\* FileWalker.doWalk: an lstat for every entry of the directory at path p
NtDoWalk(s, p) ==
    [s EXCEPT !.ops = @ \cup {NtOp("lstat", Append(p, e)) :
                                 e \in NtReaddir(s.fs, p[Len(p)].n)}]

\* the callbacks of fs.lstat, fs.stat and fs.realpath in doWalk, for path p
NtLstatDone(s, p) ==
    LET realpath == NtRealPathIfNeeded(s, p) IN
    IF realpath \in s.walkedPaths THEN s
    ELSE [s EXCEPT !.walkedPaths = @ \cup {realpath},
                   !.ops = @ \cup {NtOp("readdir", p)}]

\* the callback of extfs.readdir, in nodeJSTraversal and in doWalk
NtReaddirDone(s, p) ==
    NtDoWalk([s EXCEPT !.listed[p[Len(p)].n] = @ + 1], p)

\* flow.parallel: done is called when no call is in flight any more
NtSettle(s) ==
    IF s.ops = {} THEN [s EXCEPT !.pc = "done"] ELSE s

\* FileWalker.nodeJSTraversal
NtTraversal ==
    /\ kind = "links"
    /\ nt.pc = "init"
    /\ nt' = [nt EXCEPT !.pc = "walking",
                        !.ops = {NtOp("readdir", <<NtEntry("R", FALSE)>>)}]
    /\ UNCHANGED <<kind, rg, fw, svc, pl, ds, eq, bc, ps>>

\* a file system call of the traversal calls back
NtStep ==
    /\ kind = "links"
    /\ \E o \in nt.ops :
          LET s0 == [nt EXCEPT !.ops = @ \ {o}] IN
          nt' = NtSettle(IF o.op = "lstat" THEN NtLstatDone(s0, o.path)
                         ELSE NtReaddirDone(s0, o.path))
    /\ UNCHANGED <<kind, rg, fw, svc, pl, ds, eq, bc, ps>>

(***************************************************************************)
(*                    RAW SEARCH SERVICE: SearchService                    *)
(*                                                                         *)
(* The service runs file searches (unsorted or sorted by score, the sorted *)
(* ones with or without a cacheKey) and text searches over one folder.     *)
(* Every query comes in through fileSearch / textSearch and is cancelled   *)
(* by removing the last listener of its event.                             *)
(***************************************************************************)
MaxQueries == 2
SvcMaxK == 1
SvcBatch == 2
MaxMessages == 1

\* cache keys; 0 stands for a query without cacheKey
SvcKeys == {1, 2}

P_abj == <<"a", "/", "b", ".", "j">>
P_aaj == <<"a", "/", "a", ".", "j">>

SvcPatterns == {<<"a">>, P_aj, <<"a", "/">>}

\* the folder of the workspace, and what it holds before and after a file is added
SvcBase == <<"w">>

SvcFiles == <<P_at, P_aj, P_abj>>

SvcNewFile == P_aaj

\* quickOpenScorer.compareItemsByScore: a total order on the matches
SvcScoreOrder == <<P_aj, P_aaj, P_at, P_abj>>

PathRank(p) == CHOOSE i \in 1..Len(SvcScoreOrder) : SvcScoreOrder[i] = p

CompareItemsByScore(a, b) == PathRank(a) < PathRank(b)

\* arrays.topAsync: the n best of results in the order of compare, all of
\* them when n is absent (0)
TopAsync(results, n) ==
    LET sorted == SortSeq(results, CompareItemsByScore)
    IN IF n > 0 THEN SubSeq(sorted, 1, Min(n, Len(sorted))) ELSE sorted

\* a sort that keeps every result
SvcSortResults_all(maxResults, results) == TopAsync(results, 0)

\* SearchService.sortResults
SvcSortResults(maxResults, results) == TopAsync(results, maxResults)

\* SearchService.rawMatchToSearchItem (every match of a walker has a base)
SvcRawMatchToSearchItem(relativePath) == SvcBase \o <<Sep>> \o relativePath

\* a progress item: one match, or a batch of matches
SvcItem(isBatch, matches) == [batch |-> isBatch, items |-> matches]

\* the batches SearchService.sendProgress hands to the progress callback
RECURSIVE SvcSendProgress(_, _)
SvcSendProgress(results, batchSize) ==
    IF batchSize > 0
        THEN IF results = <<>> THEN <<>>
             ELSE <<SvcItem(TRUE, SubSeq(results, 1, Min(batchSize, Len(results))))>>
                  \o SvcSendProgress(SubSeq(results, Min(batchSize, Len(results)) + 1,
                                            Len(results)), batchSize)
        ELSE <<SvcItem(TRUE, results)>>

\* the lookup without the path separator rule
SvcFindRow_noSep(rows, searchValue) ==
    LET ok == {i \in 1..Len(rows) : StartsWith(searchValue, rows[i].pattern)}
    IN IF ok = {} THEN 0 ELSE CHOOSE i \in ok : \A j \in ok : i <= j

\* SearchService.getResultsFromCache, the lookup: the index of the first row,
\* in insertion order, that the search value narrows; 0 when there is none
SvcFindRow(rows, searchValue) ==
    LET hasPathSep == HasPathSep(searchValue)
        ok == {i \in 1..Len(rows) :
                 /\ StartsWith(searchValue, rows[i].pattern)
                 /\ ~(hasPathSep /\ ~HasPathSep(rows[i].pattern))}
    IN IF ok = {} THEN 0 ELSE CHOOSE i \in ok : \A j \in ok : i <= j

\* the filter that keeps every cached entry
SvcFilterCached_all(cachedEntries, searchValue) == cachedEntries

\* SearchService.getResultsFromCache, the filter over the cached entries
SvcFilterCached(cachedEntries, searchValue) ==
    SelectSeq(cachedEntries, LAMBDA e : FuzzyContains(e, StripWildcards(searchValue)))

\* the configuration the service constructs a file engine with
SvcWalkerConfig(files, sibling, filePattern, maxResults) ==
    [roots |-> <<files>>, extra |-> <<>>, filePattern |-> filePattern,
     include |-> FALSE, maxResults |-> maxResults, exists |-> FALSE,
     useRipgrep |-> TRUE, maxFilesize |-> FALSE, sibling |-> sibling]

\* the matches of the one file a text engine finds matches in
SvcTextResults == <<P_at>>

\* an engine: a fileSearch.Engine over a FileWalker, whose walk reads the
\* folder as it is when the engine is constructed, or a RipgrepEngine
SvcNewEngine(type, sorted, cfg, owner) ==
    [type |-> type,           \* file | text
     sorted |-> sorted,       \* driven by doSortedSearch (batchSize -1)
     cfg |-> cfg,
     owner |-> owner,         \* the query that constructed it
     results |-> IF type = "file" THEN FwResultPaths(FwRun(cfg).log) ELSE SvcTextResults,
     limitHit |-> IF type = "file" THEN FwRun(cfg).isLimitHit ELSE FALSE,
     state |-> "running",     \* running | done | failed | closed
     canceled |-> FALSE,      \* engine.cancel() was called
     messages |-> 0,          \* progress messages handed to onProgress so far
     emitted |-> 0]           \* matches handed to onResult so far

SvcNewQuery(type, key, pattern, maxResults) ==
    [type |-> type,           \* file | sorted | text
     key |-> key,
     pattern |-> pattern,
     maxResults |-> maxResults,
     state |-> "running",     \* running | done | failed | cancelled
     engine |-> 0,            \* the engine it constructed, 0 for none
     row |-> 0,               \* the engine of the cache row that serves it
     cacheWasResolved |-> FALSE, \* getResultsFromCache: cachedRow.resolved
     messages |-> 0,          \* the progress messages fired to the client
     batch |-> <<>>,          \* doSearch: the batch being filled
     resultCount |-> 0,       \* doFileSearch: resultCount
     delivered |-> <<>>,      \* the progress items fired, in order
     terminal |-> <<>>]       \* the terminal items fired

SvcSuccess(limitHit, fromCache, resultCount) ==
    [type |-> "success", limitHit |-> limitHit, fromCache |-> fromCache,
     resultCount |-> resultCount]

SvcError == [type |-> "error", limitHit |-> FALSE, fromCache |-> FALSE, resultCount |-> 0]

\* fileSearch / textSearch: promise.then(c => emitter.fire(c), err => emitter.fire(error))
SvcSettle(q, state, item) ==
    IF q.state # "running" THEN q
    ELSE [q EXCEPT !.state = state, !.terminal = Append(@, item)]

\* the item handler of a listening query: emitter.fire(p)
SvcFire(q, batches) ==
    IF q.state # "running" THEN q
    ELSE [q EXCEPT !.delivered = @ \o batches]

\* doFileSearch, the continuation of a sorted search: sendProgress, then c(result)
SvcSortedDone(q, batchSize, item, sortedResults) ==
    LET serialized == [i \in 1..Len(sortedResults) |->
                           SvcRawMatchToSearchItem(sortedResults[i])]
    IN SvcSettle(SvcFire(q, SvcSendProgress(serialized, batchSize)), "done", item)

\* doSortedSearch, the continuation of allResultsPromise for the query that
\* constructed the engine
SvcMissDone(q, batchSize, limitHit, results) ==
    LET sortedResults == SvcSortResults(q.maxResults, results)
    IN SvcSortedDone(q, batchSize,
           SvcSuccess(limitHit \/ (q.maxResults > 0 /\ Len(results) > q.maxResults),
                      FALSE, Len(sortedResults)),
           sortedResults)

\* trySortedSearchFromCache, the continuation of the cached row's promise
SvcHitDone(q, batchSize, limitHit, cachedEntries) ==
    LET results == SvcFilterCached(cachedEntries, q.pattern)
        sortedResults == SvcSortResults(q.maxResults, results)
    IN SvcSortedDone(q, batchSize,
           SvcSuccess(limitHit \/ (q.maxResults > 0 /\ Len(results) > q.maxResults),
                      TRUE, Len(results)),
           sortedResults)

\* a clearCache that leaves the cache in place
SvcClearCacheOf_keep(caches, cacheKey) == caches

\* SearchService.clearCache
SvcClearCacheOf(caches, cacheKey) ==
    [caches EXCEPT ![cacheKey] = [exists |-> FALSE, rows |-> <<>>]]

\* doSortedSearch: cache.resultsToSearchCache[config.filePattern] = cacheRow
SvcStoreRow(caches, cacheKey, pattern, eng) ==
    LET rows == caches[cacheKey].rows
        at == {i \in 1..Len(rows) : rows[i].pattern = pattern}
        row == [pattern |-> pattern, eng |-> eng]
    IN [caches EXCEPT ![cacheKey] =
           [exists |-> TRUE,
            rows |-> IF at = {} THEN Append(rows, row)
                     ELSE [i \in 1..Len(rows) |-> IF i \in at THEN row ELSE rows[i]]]]

\* doSortedSearch: cacheRow.resolved, set when the row's promise is fulfilled
SvcRowResolved(s, row) == s.engines[row.eng].state = "done"

\* doSortedSearch: delete cache.resultsToSearchCache[config.filePattern], run
\* when the promise of engine eng is rejected
SvcDeleteRow(caches, eng) ==
    [k \in SvcKeys |->
        [caches[k] EXCEPT !.rows = SelectSeq(@, LAMBDA row : row.eng # eng)]]

SvcNew(sibling, batchSize, maxResults) ==
    [sibling |-> sibling,     \* the folder's excludes hold a sibling clause
     batchSize |-> batchSize, \* the batchSize given to fileSearch, 0 for none
     maxResults |-> maxResults, \* the maxResults of the client's queries, 0 for none
     files |-> SvcFiles,      \* what the workspace folder holds
     caches |-> [k \in SvcKeys |-> [exists |-> FALSE, rows |-> <<>>]],
     engines |-> <<>>,
     queries |-> <<>>,
     cleared |-> {}]          \* the keys whose cache was evicted and that no
                              \* query has used since

\* doFileSearch up to its first suspension, for a query sorted by score; the
\* first definition is the variant that answers from a row whose search is
\* still running with what its engine has found so far
SvcStartSorted_early(s, key, pattern, maxResults) ==
    LET id == Len(s.queries) + 1
        q == SvcNewQuery("sorted", key, pattern, maxResults)
        cache == key # 0 /\ s.caches[key].exists
        at == IF cache THEN SvcFindRow(s.caches[key].rows, pattern) ELSE 0
    IN IF at # 0
          THEN LET eng == s.caches[key].rows[at].eng
                   q1 == [q EXCEPT !.row = eng,
                                   !.cacheWasResolved = (s.engines[eng].state = "done")]
                   q2 == IF s.engines[eng].state \in {"done", "running"}
                            THEN SvcHitDone(q1, s.batchSize,
                                            s.engines[eng].limitHit,
                                            SubSeq(s.engines[eng].results, 1,
                                                   s.engines[eng].emitted))
                            ELSE q1
               IN [s EXCEPT !.queries = Append(@, q2), !.cleared = @ \ {key}]
          ELSE LET eng == Len(s.engines) + 1
                   cfg == SvcWalkerConfig(s.files, s.sibling, pattern, 0)
               IN [s EXCEPT !.cleared = @ \ {key},
                            !.queries = Append(@, [q EXCEPT !.engine = eng, !.row = eng]),
                            !.engines = Append(@, SvcNewEngine("file", TRUE, cfg, id)),
                            !.caches = IF key # 0 THEN SvcStoreRow(@, key, pattern, eng)
                                       ELSE @]

SvcStartSorted(s, key, pattern, maxResults) ==
    LET id == Len(s.queries) + 1
        q == SvcNewQuery("sorted", key, pattern, maxResults)
        cache == key # 0 /\ s.caches[key].exists
        at == IF cache THEN SvcFindRow(s.caches[key].rows, pattern) ELSE 0
    IN IF at # 0
          THEN LET eng == s.caches[key].rows[at].eng
                   q1 == [q EXCEPT !.row = eng,
                                   !.cacheWasResolved = (s.engines[eng].state = "done")]
                   q2 == IF s.engines[eng].state = "done"
                            THEN SvcHitDone(q1, s.batchSize,
                                            s.engines[eng].limitHit,
                                            s.engines[eng].results)
                            ELSE q1
               IN [s EXCEPT !.queries = Append(@, q2), !.cleared = @ \ {key}]
          ELSE LET eng == Len(s.engines) + 1
                   cfg == SvcWalkerConfig(s.files, s.sibling, pattern, 0)
               IN [s EXCEPT !.cleared = @ \ {key},
                            !.queries = Append(@, [q EXCEPT !.engine = eng, !.row = eng]),
                            !.engines = Append(@, SvcNewEngine("file", TRUE, cfg, id)),
                            !.caches = IF key # 0 THEN SvcStoreRow(@, key, pattern, eng)
                                       ELSE @]

\* doFileSearch up to its first suspension, for an unsorted query
SvcStartUnsorted(s, pattern, maxResults) ==
    LET id == Len(s.queries) + 1
        eng == Len(s.engines) + 1
        cfg == SvcWalkerConfig(s.files, s.sibling, pattern, maxResults)
    IN [s EXCEPT !.queries = Append(@, [SvcNewQuery("file", 0, pattern, maxResults)
                                           EXCEPT !.engine = eng]),
                 !.engines = Append(@, SvcNewEngine("file", FALSE, cfg, id))]

\* ripgrepTextSearch up to its first suspension
SvcStartText(s) ==
    LET id == Len(s.queries) + 1
        eng == Len(s.engines) + 1
    IN [s EXCEPT !.queries = Append(@, [SvcNewQuery("text", 0, <<>>, 0)
                                           EXCEPT !.engine = eng]),
                 !.engines = Append(@, SvcNewEngine("text", FALSE, <<>>, id))]

\* a client subscribes to fileSearch(config) / textSearch(config)
SvcSearch ==
    /\ kind = "service"
    /\ Len(svc.queries) < MaxQueries
    /\ \/ \E key \in {0} \cup SvcKeys, pattern \in SvcPatterns :
             \* cache keys are numbered in the order of their first use
             /\ \A k \in SvcKeys : k < key => (\E i \in 1..Len(svc.queries) : svc.queries[i].key = k)
             /\ svc' = SvcStartSorted(svc, key, pattern, svc.maxResults)
       \/ svc' = SvcStartUnsorted(svc, <<"a">>, svc.maxResults)
       \/ svc' = SvcStartText(svc)
    /\ UNCHANGED <<kind, rg, fw, pl, ds, eq, bc, ps, nt>>

\* doSearch: the onResult callback given to engine.search
SvcOnMatch(q, batchSize, match) ==
    IF batchSize # 0
        THEN LET batch == Append(q.batch, match) IN
             IF batchSize > 0 /\ Len(batch) >= batchSize
                 THEN SvcFire([q EXCEPT !.batch = <<>>, !.resultCount = @ + Len(batch)],
                              <<SvcItem(TRUE, [i \in 1..Len(batch) |->
                                                  SvcRawMatchToSearchItem(batch[i])])>>)
                 ELSE [q EXCEPT !.batch = batch]
        ELSE SvcFire([q EXCEPT !.resultCount = @ + 1],
                     <<SvcItem(FALSE, <<SvcRawMatchToSearchItem(match)>>)>>)

\* an engine hands its next match to onResult; doSortedSearch runs doSearch
\* with batchSize -1
SvcEngineEmit ==
    /\ kind = "service"
    /\ \E e \in 1..Len(svc.engines) :
          LET eng == svc.engines[e]
              q == svc.queries[eng.owner]
              match == eng.results[eng.emitted + 1]
          IN /\ eng.state = "running"
             /\ eng.emitted < Len(eng.results)
             /\ ~(eng.type = "text" /\ eng.canceled)
             /\ svc' = [svc EXCEPT
                   !.engines[e].emitted = @ + 1,
                   !.queries[eng.owner] =
                       IF eng.type = "text"
                           THEN SvcFire(q, <<SvcItem(TRUE, <<match>>)>>)
                       ELSE IF eng.sorted THEN SvcOnMatch(q, -1, match)
                       ELSE SvcOnMatch(q, svc.batchSize, match)]
    /\ UNCHANGED <<kind, rg, fw, pl, ds, eq, bc, ps, nt>>

\* the progress callback of a query: emitter.fire(progress)
SvcFireMessage(q) ==
    IF q.state # "running" THEN q ELSE [q EXCEPT !.messages = @ + 1]

\* a file engine hands a progress message to onProgress: doSearch passes it
\* to the progress callback of the query that constructed the engine, and
\* the innerProgressCallback of doSortedSearch also fires it on the row's
\* event, to which the queries served by the row listen until their token
\* is cancelled
SvcEngineMessage ==
    /\ kind = "service"
    /\ \E e \in 1..Len(svc.engines) :
          LET eng == svc.engines[e] IN
          /\ eng.state = "running"
          /\ eng.type = "file"
          /\ eng.messages < MaxMessages
          /\ svc' = [svc EXCEPT
                !.engines[e].messages = @ + 1,
                !.queries = [i \in 1..Len(svc.queries) |->
                                IF svc.queries[i].engine = e
                                       \/ (eng.sorted /\ svc.queries[i].row = e)
                                    THEN SvcFireMessage(svc.queries[i])
                                    ELSE svc.queries[i]]]
    /\ UNCHANGED <<kind, rg, fw, pl, ds, eq, bc, ps, nt>>

\* a done callback that leaves the batch being filled where it is
SvcUnsortedDone_noFlush(q, ok, limitHit) ==
    IF ok THEN SvcSettle(q, "done", SvcSuccess(limitHit, FALSE, q.resultCount))
    ELSE SvcSettle(q, "failed", SvcError)

\* doSearch: the done callback given to engine.search, for an unsorted search
SvcUnsortedDone(q, ok, limitHit) ==
    LET q1 == IF q.batch # <<>>
                 THEN SvcFire([q EXCEPT !.batch = <<>>, !.resultCount = @ + Len(q.batch)],
                              <<SvcItem(TRUE, [i \in 1..Len(q.batch) |->
                                                  SvcRawMatchToSearchItem(q.batch[i])])>>)
                 ELSE q
    IN IF ok THEN SvcSettle(q1, "done", SvcSuccess(limitHit, FALSE, q1.resultCount))
       ELSE SvcSettle(q1, "failed", SvcError)

\* the queries after the promise of the sorted engine e has settled
SvcRowSettled(s, e, ok) ==
    LET eng == s.engines[e]
        \* innerProgressCallback: results = progress, the batch doSearch flushes
        results == s.queries[eng.owner].batch
        limitHit == eng.limitHit
    IN [i \in 1..Len(s.queries) |->
           LET q == s.queries[i] IN
           IF q.row # e THEN q
           ELSE IF ~ok THEN SvcSettle(q, "failed", SvcError)
           ELSE IF q.engine = e THEN SvcMissDone(q, s.batchSize, limitHit, results)
           ELSE SvcHitDone(q, s.batchSize, limitHit, results)]

\* an engine calls done: with success, or with an error
SvcEngineDone ==
    /\ kind = "service"
    /\ \E e \in 1..Len(svc.engines), ok \in BOOLEAN :
          LET eng == svc.engines[e] IN
          /\ eng.state = "running"
          /\ ok => eng.emitted = Len(eng.results)
          /\ svc' =
               IF eng.type = "text" /\ eng.canceled
                   \* RipgrepEngine: isDone is set, the close handler stays silent
                   THEN [svc EXCEPT !.engines[e].state = "closed"]
               ELSE IF eng.sorted
                   THEN [svc EXCEPT
                            !.engines[e].state = IF ok THEN "done" ELSE "failed",
                            !.queries = SvcRowSettled(svc, e, ok),
                            !.caches = IF ok THEN @ ELSE SvcDeleteRow(@, e)]
               ELSE [svc EXCEPT
                        !.engines[e].state = IF ok THEN "done" ELSE "failed",
                        !.queries[eng.owner] =
                            IF eng.type = "text"
                                THEN SvcSettle(@, IF ok THEN "done" ELSE "failed",
                                               IF ok THEN SvcSuccess(FALSE, FALSE, 0)
                                               ELSE SvcError)
                                ELSE SvcUnsortedDone(@, ok, eng.limitHit)]
    /\ UNCHANGED <<kind, rg, fw, pl, ds, eq, bc, ps, nt>>

\* every query's token reaches the engine the query constructed
SvcTokenCancelled_all(s, i) ==
    IF s.queries[i].engine # 0
        THEN [s EXCEPT !.engines[s.queries[i].engine].canceled = TRUE]
        ELSE s

\* the listeners of the token of query i that reach an engine:
\* doSearch, called by doFileSearch with the token of the query (unsorted),
\* ripgrepTextSearch; doSortedSearch hands doSearch the token of its own
\* cancelable promise, which nothing cancels
SvcTokenCancelled(s, i) ==
    LET q == s.queries[i] IN
    IF q.type \in {"file", "text"}
        THEN [s EXCEPT !.engines[q.engine].canceled = TRUE]
        ELSE s

\* the last listener of the event of query i is removed: promise.cancel()
SvcCancel ==
    /\ kind = "service"
    /\ \E i \in 1..Len(svc.queries) :
          /\ svc.queries[i].state = "running"
          /\ svc' = [SvcTokenCancelled(svc, i) EXCEPT
                        !.queries[i] = SvcSettle(@, "cancelled", SvcError)]
    /\ UNCHANGED <<kind, rg, fw, pl, ds, eq, bc, ps, nt>>

\* SearchService.clearCache(cacheKey)
SvcClearCache ==
    /\ kind = "service"
    /\ \E cacheKey \in SvcKeys :
          svc' = [svc EXCEPT !.caches = SvcClearCacheOf(@, cacheKey),
                             !.cleared = IF svc.caches[cacheKey].exists
                                            THEN @ \cup {cacheKey} ELSE @]
    /\ UNCHANGED <<kind, rg, fw, pl, ds, eq, bc, ps, nt>>

\* a file is added to the workspace folder
SvcAddFile ==
    /\ kind = "service"
    /\ svc.files = SvcFiles
    /\ svc' = [svc EXCEPT !.files = Append(@, SvcNewFile)]
    /\ UNCHANGED <<kind, rg, fw, pl, ds, eq, bc, ps, nt>>

(***************************************************************************)
(*                    DISK SEARCH: collectResultsFromEvent                 *)
(*                                                                         *)
(* The event of a search fires progress items (one match, an array of      *)
(* matches, a message) and terminal items (success, error).  Nothing stops *)
(* an event from firing after a terminal item; what the collector makes of *)
(* it is the collector's matter.                                           *)
(***************************************************************************)
MaxEvents == 4

\* serialized file matches: a path and, for a text search, its matches
DsSerialized ==
    {[path |-> P_at, matches |-> <<>>], [path |-> P_aj, matches |-> <<"m">>]}

DsEv(t, items, limitHit) == [t |-> t, items |-> items, limitHit |-> limitHit]

\* the items the event may fire
DsEvents ==
    {DsEv("match", <<m>>, FALSE) : m \in DsSerialized}
        \cup {DsEv("batch", b, FALSE) : b \in SeqsUpTo(DsSerialized, 2)}
        \cup {DsEv("message", <<>>, FALSE)}
        \cup {DsEv("success", <<>>, l) : l \in BOOLEAN}
        \cup {DsEv("error", <<>>, FALSE)}

\* isSerializedSearchComplete
DsIsComplete(ev) == ev.t \in {"success", "error"}

\* DiskSearch.createFileMatch: new FileMatch(uri.file(data.path)), then
\* matches.push(...data.matches)
DsCreateFileMatch(data) ==
    [resource |-> [scheme |-> "file", path |-> data.path], matches |-> data.matches]

\* the collector right after collectResultsFromEvent has returned its promise
DsNew(onProgress, token) ==
    [onProgress |-> onProgress,  \* the caller gave an onProgress
     token |-> token,            \* the caller gave a cancellation token
     fired |-> <<>>,             \* the items the event has fired, in order
     canceledAt |-> -1,          \* the number of items fired when the token was
                                 \* cancelled, -1 when it was not
     listening |-> TRUE,         \* the listener is registered
     result |-> <<>>,            \* the local `result`
     progress |-> <<>>,          \* the calls of onProgress, in order
     promise |-> "pending",      \* pending | fulfilled | rejected
     value |-> [limitHit |-> FALSE, results |-> <<>>, error |-> "none"]]

DsIdle == DsNew(FALSE, FALSE)

\* c(...) and e(...) of the promise: the first call settles it
DsSettle(s, promise, value) ==
    IF s.promise # "pending" THEN s
    ELSE [s EXCEPT !.promise = promise, !.value = value]

\* a listener that stays registered after the terminal item
DsListener_noDispose(s, ev) ==
    IF DsIsComplete(ev)
        THEN IF ev.t = "success"
                 THEN DsSettle(s, "fulfilled",
                          [limitHit |-> ev.limitHit, results |-> s.result, error |-> "none"])
                 ELSE DsSettle(s, "rejected",
                          [limitHit |-> FALSE, results |-> <<>>, error |-> "error"])
    ELSE IF ev.t \in {"batch", "match"}
        THEN LET fileMatches == [i \in 1..Len(ev.items) |-> DsCreateFileMatch(ev.items[i])]
             IN [s EXCEPT !.result = @ \o fileMatches,
                          !.progress = IF s.onProgress THEN @ \o fileMatches ELSE @]
    ELSE [s EXCEPT !.progress = IF s.onProgress THEN Append(@, ev) ELSE @]

\* the listener collectResultsFromEvent registers on the event
DsListener(s, ev) ==
    IF DsIsComplete(ev)
        THEN LET s1 == IF ev.t = "success"
                          THEN DsSettle(s, "fulfilled",
                                   [limitHit |-> ev.limitHit, results |-> s.result,
                                    error |-> "none"])
                          ELSE DsSettle(s, "rejected",
                                   [limitHit |-> FALSE, results |-> <<>>, error |-> "error"])
             IN [s1 EXCEPT !.listening = FALSE]
    ELSE IF ev.t \in {"batch", "match"}
        THEN LET fileMatches == [i \in 1..Len(ev.items) |-> DsCreateFileMatch(ev.items[i])]
             IN [s EXCEPT !.result = @ \o fileMatches,
                          !.progress = IF s.onProgress THEN @ \o fileMatches ELSE @]
    ELSE [s EXCEPT !.progress = IF s.onProgress THEN Append(@, ev) ELSE @]

\* the event fires an item: it reaches the listener while it is registered
DsFire ==
    /\ kind = "collect"
    /\ Len(ds.fired) < MaxEvents
    /\ \E ev \in DsEvents :
          LET s0 == [ds EXCEPT !.fired = Append(@, ev)]
          IN ds' = IF ds.listening THEN DsListener(s0, ev) ELSE s0
    /\ UNCHANGED <<kind, rg, fw, svc, pl, eq, bc, ps, nt>>

\* the token's onCancellationRequested listener: dispose, then e(canceled());
\* the first definition is the variant that does not dispose the listener
DsCancel_noDispose ==
    /\ kind = "collect"
    /\ ds.token
    /\ ds.canceledAt = -1
    /\ ds' = DsSettle([ds EXCEPT !.canceledAt = Len(ds.fired)],
                      "rejected",
                      [limitHit |-> FALSE, results |-> <<>>, error |-> "canceled"])
    /\ UNCHANGED <<kind, rg, fw, svc, pl, eq, bc, ps, nt>>

DsCancel ==
    /\ kind = "collect"
    /\ ds.token
    /\ ds.canceledAt = -1
    /\ ds' = DsSettle([ds EXCEPT !.listening = FALSE, !.canceledAt = Len(ds.fired)],
                      "rejected",
                      [limitHit |-> FALSE, results |-> <<>>, error |-> "canceled"])
    /\ UNCHANGED <<kind, rg, fw, svc, pl, eq, bc, ps, nt>>

(***************************************************************************)
(*                    SEARCH SERVICE: extendQuery                          *)
(*                                                                         *)
(* extendQuery fills a query from the configuration: the file encoding     *)
(* when the query has none, and the file excludes unless the query         *)
(* disregards them.  An object of glob expressions is the set of its       *)
(* <<key, value>> pairs; Undefined stands for a property that is not set.  *)
(***************************************************************************)
MaxApply == 3

Undefined == "undefined"

EqEncodings == {"utf8", "latin1"}

EqKeys == {"**/.git", "**/x"}

EqValues == {"true", "false"}

Keys(o) == {p[1] : p \in o}

\* the objects of glob expressions over EqKeys: every key at most once
EqExpressions == {o \in SUBSET (EqKeys \X EqValues) : Cardinality(Keys(o)) = Cardinality(o)}

\* an optional object: [defined |-> FALSE] is undefined
EqOptional == {[defined |-> FALSE, o |-> {}]} \cup {[defined |-> TRUE, o |-> o] : o \in EqExpressions}

\* the values configurationService.getValue() can return: files may be
\* missing, and so may files.encoding and files.exclude
EqConfigurations ==
    {c \in [files : BOOLEAN, encoding : EqEncodings \cup {Undefined}, exclude : EqOptional] :
        ~c.files => (c.encoding = Undefined /\ ~c.exclude.defined)}

EqQueries ==
    [fileEncoding : EqEncodings \cup {Undefined},
     disregardExcludeSettings : BOOLEAN,
     excludePattern : EqOptional]

\* objects.mixin(destination, source, overwrite): every key of source that
\* destination lacks is added; a key it has is replaced only with overwrite
Mixin(destination, source, overwrite) ==
    IF overwrite
    THEN {p \in destination : p[1] \notin Keys(source)} \cup source
    ELSE destination \cup {p \in source : p[1] \notin Keys(destination)}

\* SearchService.extendQuery; the first definition is the variant whose
\* mixin overwrites
ExtendQuery_overwrite(configuration, query) ==
    LET fileEncoding == IF configuration.files THEN configuration.encoding ELSE Undefined
        q1 == IF query.fileEncoding = Undefined
              THEN [query EXCEPT !.fileEncoding = fileEncoding]
              ELSE query
        fileExcludes == IF configuration.files THEN configuration.exclude
                        ELSE [defined |-> FALSE, o |-> {}]
    IN  IF ~q1.disregardExcludeSettings /\ fileExcludes.defined
        THEN IF ~q1.excludePattern.defined
             THEN [q1 EXCEPT !.excludePattern = fileExcludes]
             ELSE [q1 EXCEPT !.excludePattern.o = Mixin(@, fileExcludes.o, TRUE)]
        ELSE q1

ExtendQuery(configuration, query) ==
    LET fileEncoding == IF configuration.files THEN configuration.encoding ELSE Undefined
        q1 == IF query.fileEncoding = Undefined
              THEN [query EXCEPT !.fileEncoding = fileEncoding]
              ELSE query
        fileExcludes == IF configuration.files THEN configuration.exclude
                        ELSE [defined |-> FALSE, o |-> {}]
    IN  IF ~q1.disregardExcludeSettings /\ fileExcludes.defined
        THEN IF ~q1.excludePattern.defined
             THEN [q1 EXCEPT !.excludePattern = fileExcludes]
             ELSE [q1 EXCEPT !.excludePattern.o = Mixin(@, fileExcludes.o, FALSE)]
        ELSE q1

\* a query in front of a configuration; history keeps the query as it was
\* given and as every call of extendQuery left it
EqNew(configuration, query) ==
    [configuration |-> configuration, query |-> query, history |-> <<query>>]

EqIdle ==
    EqNew([files |-> FALSE, encoding |-> Undefined, exclude |-> [defined |-> FALSE, o |-> {}]],
          [fileEncoding |-> Undefined, disregardExcludeSettings |-> FALSE,
           excludePattern |-> [defined |-> FALSE, o |-> {}]])

\* one call of extendQuery(query)
EqExtend ==
    /\ kind = "extend"
    /\ Len(eq.history) <= MaxApply
    /\ LET q == ExtendQuery(eq.configuration, eq.query)
       IN eq' = [eq EXCEPT !.query = q, !.history = Append(@, q)]
    /\ UNCHANGED <<kind, rg, fw, svc, pl, ds, bc, ps, nt>>

\* SearchService.ripgrepTextSearch: cancel and the collector's timer
\* token.onCancellationRequested(() => engine.cancel()); the listener is
\* registered right before engine.search is called
RtCancel ==
    /\ rg.pc # "init"
    /\ RgCancel

\* the flush timer fires
BcTimeout ==
    /\ kind \in {"text", "batch"}
    /\ bc.on
    /\ bc.timers > 0
    /\ bc' = BcFlush([bc EXCEPT !.timerPending = FALSE, !.timers = @ - 1], "timer", rg.canceled)
    /\ UNCHANGED <<kind, rg, fw, svc, pl, ds, eq, ps, nt>>

\* a caller adds one item of some size
BcAdd ==
    /\ kind = "batch"
    /\ Len(bc.added) < MaxAdds
    /\ \E size \in 0..MaxSize : bc' = BcAddItem(bc, Len(bc.added) + 1, size, FALSE)
    /\ UNCHANGED <<kind, rg, fw, svc, pl, ds, eq, ps, nt>>

\* a caller adds an array of items with their total size
BcAddMany ==
    /\ kind = "batch"
    /\ \E n \in 0..2, size \in 0..MaxSize :
          /\ Len(bc.added) + n <= MaxAdds
          /\ n = 0 => (size = 0 /\ Len(bc.calls) < MaxAdds)
          /\ bc' = BcAddItems(bc, [i \in 1..n |-> Len(bc.added) + i], size, FALSE)
    /\ UNCHANGED <<kind, rg, fw, svc, pl, ds, eq, ps, nt>>

\* a caller calls flush()
BcFlushCall ==
    /\ kind = "batch"
    /\ bc' = BcFlush(bc, "flush", FALSE)
    /\ UNCHANGED <<kind, rg, fw, svc, pl, ds, eq, ps, nt>>

(***************************************************************************)
(*                    SPECIFICATIONS                                       *)
(***************************************************************************)
\* the value of a component the behaviour does not exercise
FwIdle ==
    FwNew([roots |-> <<>>, extra |-> <<>>, filePattern |-> <<>>, include |-> FALSE,
           maxResults |-> 0, exists |-> FALSE, useRipgrep |-> TRUE,
           maxFilesize |-> FALSE, sibling |-> FALSE])

SvcIdle == SvcNew(FALSE, 0, 0)

InitText ==
    /\ kind = "text"
    /\ nt = NtIdle
    /\ ps = PsIdle
    /\ pl = PlIdle
    /\ ds = DsIdle
    /\ eq = EqIdle
    /\ bc = BcIdle
    /\ fw = FwIdle
    /\ svc = SvcIdle
    /\ \E c \in RgConfigs :
          \* the engine reads folderQueries only to see whether it and
          \* extraFiles are both empty, so one of the two is enough
          /\ c.folders + c.extra <= 1
          /\ (c.folders = 0 /\ c.extra = 0) => (c.output = <<>> /\ ~c.sibling)
          /\ rg = RgNew(c)

NextText == RgSearch \/ RgData \/ RgStderrData \/ RgClose \/ RgSiblingSettled \/ RgCancel

SpecText == InitText /\ [][NextText]_vars

InitWalk ==
    /\ kind = "walk"
    /\ nt = NtIdle
    /\ ps = PsIdle
    /\ pl = PlIdle
    /\ ds = DsIdle
    /\ eq = EqIdle
    /\ bc = BcIdle
    /\ rg = RgIdle
    /\ svc = SvcIdle
    /\ \E c \in FwConfigs :
          /\ c.maxFilesize => ~c.useRipgrep
          /\ ~(c.exists /\ c.maxResults > 0)
          /\ fw = FwNew(c)

NextWalk == FwWalk \/ FwData \/ FwChildError \/ FwClose \/ FwNodeStep \/ FwCancel

SpecWalk == InitWalk /\ [][NextWalk]_vars

InitSvc ==
    /\ kind = "service"
    /\ nt = NtIdle
    /\ ps = PsIdle
    /\ pl = PlIdle
    /\ ds = DsIdle
    /\ eq = EqIdle
    /\ bc = BcIdle
    /\ rg = RgIdle
    /\ fw = FwIdle
    /\ \E sibling \in BOOLEAN, batchSize \in {0, SvcBatch}, maxResults \in 0..SvcMaxK :
          svc = SvcNew(sibling, batchSize, maxResults)

NextSvc ==
    SvcSearch \/ SvcEngineEmit \/ SvcEngineDone \/ SvcCancel \/ SvcClearCache \/ SvcAddFile

SpecSvc == InitSvc /\ [][NextSvc]_vars

\* the service with engines that report progress messages while they run
InitSvcMsg ==
    /\ InitSvc
    /\ ~svc.sibling /\ svc.batchSize = 0 /\ svc.maxResults = 0

NextSvcMsg == NextSvc \/ SvcEngineMessage

SpecSvcMsg == InitSvcMsg /\ [][NextSvcMsg]_vars

InitLine ==
    /\ kind = "line"
    /\ nt = NtIdle
    /\ ps = PsIdle
    /\ ds = DsIdle
    /\ eq = EqIdle
    /\ bc = BcIdle
    /\ rg = RgIdle
    /\ fw = FwIdle
    /\ svc = SvcIdle
    /\ \E tokens \in SeqsUpTo(PlTokens, MaxTokens), cr \in BOOLEAN, maxResults \in 0..MaxK :
          pl = PlNew(tokens, cr, maxResults)

NextLine == PlParse

SpecLine == InitLine /\ [][NextLine]_vars

InitCollect ==
    /\ kind = "collect"
    /\ nt = NtIdle
    /\ ps = PsIdle
    /\ rg = RgIdle
    /\ fw = FwIdle
    /\ svc = SvcIdle
    /\ pl = PlIdle
    /\ eq = EqIdle
    /\ bc = BcIdle
    /\ \E onProgress \in BOOLEAN, token \in BOOLEAN : ds = DsNew(onProgress, token)

NextCollect == DsFire \/ DsCancel

SpecCollect == InitCollect /\ [][NextCollect]_vars

InitExtend ==
    /\ kind = "extend"
    /\ nt = NtIdle
    /\ ps = PsIdle
    /\ rg = RgIdle
    /\ fw = FwIdle
    /\ svc = SvcIdle
    /\ pl = PlIdle
    /\ ds = DsIdle
    /\ bc = BcIdle
    /\ \E c \in EqConfigurations, q \in EqQueries : eq = EqNew(c, q)

NextExtend == EqExtend

SpecExtend == InitExtend /\ [][NextExtend]_vars

\* the text search with its scheduling: an engine that was constructed is
\* searched, a running child writes its output and closes, and a sibling
\* lookup that was started settles; nothing obliges the caller to cancel or
\* the child to write to stderr
SpecTextFair ==
    /\ SpecText
    /\ WF_vars(RgSearch) /\ WF_vars(RgData) /\ WF_vars(RgClose)
    /\ WF_vars(RgSiblingSettled)

\* the outputs of a collected search: up to MaxFiles files, each a header
\* and one result line
RawTextOutputs ==
    UNION {{[i \in 1..(2 * k) |->
                IF i % 2 = 1 THEN FileLine(RgFileNames[(i + 1) \div 2])
                ELSE MatchLine(n[i \div 2])] :
            n \in [1..k -> 1..MaxMatchesPerLine]} : k \in 0..MaxFiles}

\* SearchService.ripgrepTextSearch: an engine and its collector
InitRawText ==
    /\ kind = "text"
    /\ nt = NtIdle
    /\ ps = PsIdle
    /\ fw = FwIdle
    /\ svc = SvcIdle
    /\ pl = PlIdle
    /\ ds = DsIdle
    /\ eq = EqIdle
    /\ bc = BcNew(TRUE, BATCH_SIZE)
    /\ \E c \in RgConfigs :
          /\ c.folders = 1 /\ c.extra = 0
          /\ c.output \in RawTextOutputs
          /\ rg = RgNew(c)

NextRawText ==
    RgSearch \/ RgData \/ RgStderrData \/ RgClose \/ RgSiblingSettled \/ RtCancel
        \/ BcTimeout

SpecRawText == InitRawText /\ [][NextRawText]_vars

\* a BatchedCollector driven by its caller: doTextSearch gives it any batch
\* size and the engine's arrays, ripgrepTextSearch single results
InitCollector ==
    /\ kind = "batch"
    /\ nt = NtIdle
    /\ ps = PsIdle
    /\ rg = RgIdle
    /\ fw = FwIdle
    /\ svc = SvcIdle
    /\ pl = PlIdle
    /\ ds = DsIdle
    /\ eq = EqIdle
    /\ \E maxBatchSize \in {0, BATCH_SIZE} : bc = BcNew(TRUE, maxBatchSize)

NextCollector == BcAdd \/ BcAddMany \/ BcFlushCall \/ BcTimeout

SpecCollector == InitCollector /\ [][NextCollector]_vars

\* a RipgrepParser fed with the chunks of one stream and flushed
InitParse ==
    /\ kind = "parse"
    /\ rg = RgIdle
    /\ fw = FwIdle
    /\ svc = SvcIdle
    /\ pl = PlIdle
    /\ ds = DsIdle
    /\ eq = EqIdle
    /\ bc = BcIdle
    /\ nt = NtIdle
    /\ \E stream \in PsStreams, extra \in 0..1, maxResults \in {0, MaxK} :
          ps = PsNew(stream, extra, maxResults)

NextParse == PsData \/ PsFlush

SpecParse == InitParse /\ [][NextParse]_vars

\* the native traversal of one root folder over a file system with links;
\* every file system call that is in flight calls back
InitLinks ==
    /\ kind = "links"
    /\ rg = RgIdle
    /\ fw = FwIdle
    /\ svc = SvcIdle
    /\ pl = PlIdle
    /\ ds = DsIdle
    /\ eq = EqIdle
    /\ bc = BcIdle
    /\ ps = PsIdle
    /\ \E f \in NtFileSystems : nt = NtNew(f)

NextLinks == NtTraversal \/ NtStep

SpecLinks == InitLinks /\ [][NextLinks]_vars /\ WF_vars(NtTraversal) /\ WF_vars(NtStep)

\* one result line of up to MaxMarked tokens over two different characters
MaxMarked == 6

InitMarked ==
    /\ kind = "line"
    /\ nt = NtIdle
    /\ ps = PsIdle
    /\ ds = DsIdle
    /\ eq = EqIdle
    /\ bc = BcIdle
    /\ rg = RgIdle
    /\ fw = FwIdle
    /\ svc = SvcIdle
    /\ \E tokens \in SeqsUpTo(PlTokens \cup {"x"}, MaxMarked), cr \in BOOLEAN,
          maxResults \in 0..MaxK :
          pl = PlNew(tokens, cr, maxResults)

SpecMarked == InitMarked /\ [][NextLine]_vars

\* one search of any of the three components
Init == InitText \/ InitWalk \/ InitSvc

Next == NextText \/ NextWalk \/ NextSvc

Spec == Init /\ [][Next]_vars

(***************************************************************************)
(*                    PROPERTIES                                           *)
(***************************************************************************)
\* the entries of log whose event is e
EvsOf(log, e) == {i \in 1..Len(log) : log[i].e = e}

\* the matches of a query's progress items, in the order of delivery
RECURSIVE Flatten(_)
Flatten(delivered) ==
    IF delivered = <<>> THEN <<>> ELSE Head(delivered).items \o Flatten(Tail(delivered))

SvcSerialized(paths) == {SvcRawMatchToSearchItem(x) : x \in paths}

\* the sorted queries a cache row has answered completely
SvcHitsDone == {i \in 1..Len(svc.queries) :
                   /\ svc.queries[i].type = "sorted"
                   /\ svc.queries[i].engine = 0
                   /\ svc.queries[i].state = "done"}

\* the sorted queries that completed with an engine of their own
SvcMissesDone == {i \in 1..Len(svc.queries) :
                     /\ svc.queries[i].type = "sorted"
                     /\ svc.queries[i].engine # 0
                     /\ svc.queries[i].state = "done"}

C2_NoResultAfterCancel ==
    /\ \A i \in EvsOf(rg.log, "result") : ~rg.log[i].late
    /\ \A i \in EvsOf(fw.log, "result") : ~fw.log[i].late

\* C3: a query cancelled while its own engine runs has had engine.cancel()
\* called: an unsorted file search, a sorted one without cacheKey, a text search.
C3_CancelReachesEngine ==
    \A i \in 1..Len(svc.queries) :
        LET q == svc.queries[i] IN
        (/\ q.state = "cancelled"
         /\ q.engine # 0
         /\ (q.type \in {"file", "text"} \/ q.key = 0))
            => svc.engines[q.engine].canceled

\* C4, in every state: with maxResults = K >= 1 and exists unset, at most K
\* results were reported, the limit flag is set iff more than K candidates
\* passed the gates, and done reports that flag.
C4_State ==
    (fw.cfg.maxResults > 0 /\ ~fw.cfg.exists) =>
        /\ CountEv(fw.log, "result") <= fw.cfg.maxResults
        /\ fw.isLimitHit <=> (fw.resultCount > fw.cfg.maxResults)
        /\ \A i \in EvsOf(fw.log, "done") :
              fw.log[i].limitHit <=> (fw.resultCount > fw.cfg.maxResults)

\* C4, in every step: the limit flag does not revert, and no result is
\* reported once it is set.
C4_Step ==
    (fw.cfg.maxResults > 0 /\ ~fw.cfg.exists /\ fw.isLimitHit) =>
        /\ fw'.isLimitHit
        /\ CountEv(fw'.log, "result") = CountEv(fw.log, "result")

\* C4: a FileWalker with maxResults = K reports at most K results, its limit
\* flag never reverts, nothing is reported once it is set, and done reports
\* isLimitHit = true iff a (K+1)-th candidate passed the gates.
C4_MaxResults == []C4_State /\ [][C4_Step]_vars

\* C4, its case: two roots, an include pattern, maxResults = 1, one result
\* reported and done called with the limit flag set
C4_Witness ==
    /\ kind = "walk"
    /\ fw.pc = "done"
    /\ fw.cfg.maxResults = 1
    /\ fw.cfg.include
    /\ Len(fw.cfg.roots) = 2
    /\ CountEv(fw.log, "result") = 1
    /\ \E i \in EvsOf(fw.log, "done") : fw.log[i].limitHit

\* the match runs the child's output holds
RECURSIVE RgTotalMatches(_)
RgTotalMatches(o) ==
    IF o = <<>> THEN 0 ELSE Head(o).n + RgTotalMatches(Tail(o))

\* the match ranges of the results reported so far
RECURSIVE RgRangesReported(_)
RgRangesReported(log) ==
    IF log = <<>> THEN 0
    ELSE (IF Head(log).e = "result" THEN Head(log).n ELSE 0) + RgRangesReported(Tail(log))

\* C5: with maxResults = K a text search reports at most K match ranges, and
\* it reports limitHit = true only when the output held more than K matches.
C5_LimitHitOnlyWhenCut ==
    rg.cfg.maxResults > 0 =>
        /\ RgRangesReported(rg.log) <= rg.cfg.maxResults
        /\ \A i \in EvsOf(rg.log, "done") :
              rg.log[i].limitHit => RgTotalMatches(rg.cfg.output) > rg.cfg.maxResults

\* the candidates of a walk that pass the file pattern and include gates
FwPassing(c) ==
    {x \in Range(c.extra) : FwGates(c, x)}
        \cup UNION {{x \in Range(c.roots[r]) : FwGates(c, x)} : r \in 1..Len(c.roots)}

\* C6: with exists = true a file search reports no result, and it ends with
\* limitHit = true only when some file passes the gates.
C6_ExistsLimitHit ==
    (fw.cfg.exists /\ fw.pc = "done") =>
        /\ CountEv(fw.log, "result") = 0
        /\ \A i \in EvsOf(fw.log, "done") :
              fw.log[i].limitHit => FwPassing(fw.cfg) # {}

\* pattern p narrows the cached pattern q
Narrows(p, q) == StartsWith(p, q) /\ (HasPathSep(p) => HasPathSep(q))

\* the step is the start of a query sorted by score that carries a cacheKey
SvcKeyedStart ==
    /\ Len(svc'.queries) = Len(svc.queries) + 1
    /\ svc'.queries[Len(svc'.queries)].type = "sorted"
    /\ svc'.queries[Len(svc'.queries)].key # 0

\* C7, the step of a sorted query with cacheKey k and pattern p: a row of cache
\* k that p narrows serves it and no engine is constructed; without such a row
\* an engine is constructed and a row is stored under p.
C7_Step ==
    SvcKeyedStart =>
        LET q == svc'.queries[Len(svc'.queries)]
            rows == svc.caches[q.key].rows
            rowsAfter == svc'.caches[q.key].rows
        IN IF svc.caches[q.key].exists
                 /\ \E i \in 1..Len(rows) : Narrows(q.pattern, rows[i].pattern)
              THEN /\ q.engine = 0
                   /\ svc'.engines = svc.engines
                   /\ svc'.caches = svc.caches
                   /\ \E i \in 1..Len(rows) :
                         Narrows(q.pattern, rows[i].pattern) /\ q.row = rows[i].eng
              ELSE /\ q.engine = Len(svc.engines) + 1
                   /\ Len(svc'.engines) = Len(svc.engines) + 1
                   /\ svc'.engines[q.engine].state = "running"
                   /\ \E i \in 1..Len(rowsAfter) :
                         rowsAfter[i] = [pattern |-> q.pattern, eng |-> q.engine]

SvcFuzzyOfRow(i) ==
    {x \in Range(svc.engines[svc.queries[i].row].results) :
        FuzzyContains(x, StripWildcards(svc.queries[i].pattern))}

\* C8 as stated: a query answered by a cache row returns exactly the entries of
\* the row's result list that pass its fuzzy test, with fromCache = true; a
\* query answered by its own engine carries fromCache = false.
C8_ExactlyTheFiltered ==
    /\ \A i \in SvcHitsDone :
          /\ Range(Flatten(svc.queries[i].delivered)) = SvcSerialized(SvcFuzzyOfRow(i))
          /\ svc.queries[i].terminal[1].fromCache
    /\ \A i \in SvcMissesDone : ~svc.queries[i].terminal[1].fromCache

\* C8 amended: a query answered by a cache row constructs no engine and
\* returns entries of the row's result list that pass its fuzzy test, each
\* once: all of them when maxResults is absent or not exceeded, maxResults of
\* them otherwise; its stats carry fromCache = true, those of a query answered
\* by its own engine fromCache = false.
C8_FilteredUpToMaxResults ==
    /\ \A i \in SvcHitsDone :
          LET q == svc.queries[i]
              got == Flatten(q.delivered)
              want == SvcFuzzyOfRow(i)
          IN /\ Range(got) \subseteq SvcSerialized(want)
             /\ Cardinality(Range(got)) = Len(got)
             /\ Len(got) = IF q.maxResults > 0
                              THEN Min(q.maxResults, Cardinality(want))
                              ELSE Cardinality(want)
             /\ q.terminal[1].fromCache
             /\ q.terminal[1].type = "success"
    /\ \A i \in SvcMissesDone : ~svc.queries[i].terminal[1].fromCache

\* C8, its case: a row answered a query of maxResults = 1 of which two
\* entries pass the fuzzy test
C8_Witness ==
    /\ kind = "service"
    /\ \E i \in SvcHitsDone :
          /\ svc.queries[i].maxResults = 1
          /\ Cardinality(SvcFuzzyOfRow(i)) >= 2
          /\ Len(Flatten(svc.queries[i].delivered)) = 1
          /\ svc.queries[i].terminal[1].fromCache

\* C9: the result list of the cache row that answers a narrowing query holds
\* every file a fresh walk for the new pattern reports over the same folder
\* and excludes, and what the row answers with are exactly those files.
C9_CacheEqualsFreshWalk ==
    \A i \in SvcHitsDone :
        LET q == svc.queries[i]
            row == svc.engines[q.row]
            fresh == FwRun([row.cfg EXCEPT !.filePattern = q.pattern])
        IN q.maxResults = 0 =>
              /\ Range(FwResultPaths(fresh.log)) \subseteq Range(row.results)
              /\ Range(Flatten(q.delivered)) = SvcSerialized(Range(FwResultPaths(fresh.log)))

\* the step is a clearCache that evicted a cache
SvcEviction ==
    /\ svc'.queries = svc.queries
    /\ svc'.engines = svc.engines
    /\ svc'.caches # svc.caches

\* C10, in every step: clearCache(k) leaves the caches of the other keys as
\* they are, and a sorted query with cacheKey k that starts after it
\* constructs a new engine and reads the row of that engine.
C10_Step ==
    /\ SvcEviction =>
          \E k \in SvcKeys :
              /\ ~svc'.caches[k].exists
              /\ \A o \in SvcKeys \ {k} : svc'.caches[o] = svc.caches[o]
    /\ (SvcKeyedStart /\ svc'.queries[Len(svc'.queries)].key \in svc.cleared) =>
          LET q == svc'.queries[Len(svc'.queries)] IN
          /\ q.engine = Len(svc.engines) + 1
          /\ q.row = q.engine
          /\ svc'.engines[q.engine].state = "running"
          /\ svc'.engines[q.engine].cfg.roots = <<svc.files>>

\* C10, in every state: an evicted cache is gone until a query uses its key
\* again, and a query answered by its own engine reports fromCache = false and
\* returns results of that engine only.
C10_State ==
    /\ \A k \in svc.cleared : ~svc.caches[k].exists /\ svc.caches[k].rows = <<>>
    /\ \A i \in SvcMissesDone :
          LET q == svc.queries[i] IN
          /\ ~q.terminal[1].fromCache
          /\ Range(Flatten(q.delivered)) \subseteq SvcSerialized(Range(svc.engines[q.engine].results))

\* C10: after clearCache(k) the next sorted query with cacheKey k is a miss
\* whatever its pattern: it constructs a new engine, its results come from
\* that engine only and it reports fromCache = false; the caches of the other
\* keys are unchanged.
C10_ClearCache == []C10_State /\ [][C10_Step]_vars

\* C10, its case: a query was answered, its cache evicted, a file added, and a
\* later query of the same key, which the evicted row would have served, was
\* answered by a new engine that saw the new file
C10_Witness ==
    /\ kind = "service"
    /\ \E i, j \in SvcMissesDone :
          /\ i < j
          /\ svc.queries[i].key = svc.queries[j].key
          /\ svc.queries[i].key # 0
          /\ Narrows(svc.queries[j].pattern, svc.queries[i].pattern)
          /\ svc.engines[svc.queries[i].engine].state = "done"
          /\ svc.queries[j].engine # svc.queries[i].engine
          /\ SvcRawMatchToSearchItem(SvcNewFile) \in Range(Flatten(svc.queries[j].delivered))
          /\ SvcNewFile \notin Range(svc.engines[svc.queries[i].engine].results)

\* the rows of cache k, as a set
SvcRowsOf(caches, k) == Range(caches[k].rows)

\* C11, in every step: a row of cache k is still a row of cache k after the
\* step unless the step is clearCache(k).
C11_Step ==
    \A k \in SvcKeys : \A row \in SvcRowsOf(svc.caches, k) :
        \/ row \in SvcRowsOf(svc'.caches, k)
        \/ ~svc'.caches[k].exists

\* C11: a cache row stays in its cache until clearCache(cacheKey) is called;
\* completion, failure or cancellation of a query and later queries neither
\* remove nor replace it.
C11_RowStaysUntilCleared == [][C11_Step]_vars

\* the sorted queries with a cacheKey that constructed an engine, and so a
\* cache row, and were cancelled
SvcCreatorsCancelled == {i \in 1..Len(svc.queries) :
                            /\ svc.queries[i].type = "sorted"
                            /\ svc.queries[i].key # 0
                            /\ svc.queries[i].engine # 0
                            /\ svc.queries[i].state = "cancelled"}

\* C12, in every state: the engine of a row whose creator was cancelled has
\* not had cancel() called.
C12_State ==
    \A i \in SvcCreatorsCancelled : ~svc.engines[svc.queries[i].engine].canceled

\* C12, in every step: the cancellation of a query leaves the caches and the
\* engines as they are, a resolved row stays resolved, and a query of the
\* same cacheKey that narrows a row whose creator was cancelled is served
\* from the cache.
C12_Step ==
    /\ \A i \in 1..Len(svc.queries) :
          (/\ Len(svc'.queries) = Len(svc.queries)
           /\ svc.queries[i].state = "running"
           /\ svc'.queries[i].state = "cancelled"
           /\ svc.queries[i].type = "sorted"
           /\ svc.queries[i].key # 0)
             => svc'.caches = svc.caches /\ svc'.engines = svc.engines
    /\ \A k \in SvcKeys : \A row \in SvcRowsOf(svc.caches, k) :
          (SvcRowResolved(svc, row) /\ row \in SvcRowsOf(svc'.caches, k))
              => SvcRowResolved(svc', row)
    /\ SvcKeyedStart =>
          LET q == svc'.queries[Len(svc'.queries)] IN
          \A i \in SvcCreatorsCancelled :
              (/\ svc.queries[i].key = q.key
               /\ Narrows(q.pattern, svc.queries[i].pattern)
               /\ [pattern |-> svc.queries[i].pattern, eng |-> svc.queries[i].engine]
                      \in SvcRowsOf(svc.caches, q.key))
                 => /\ q.engine = 0
                    /\ svc'.engines = svc.engines
                    /\ \E row \in SvcRowsOf(svc.caches, q.key) :
                          row.eng = q.row /\ Narrows(q.pattern, row.pattern)

\* C12: cancelling the query that created a cache row neither cancels the
\* row's engine nor rejects the row's promise; the row resolves once and
\* never goes back, and a later narrowing query with the same cacheKey is
\* served from the cache.
C12_RowSurvivesCancel == []C12_State /\ [][C12_Step]_vars

\* C12, its case: the creator of a row was cancelled while its engine ran,
\* the engine completed, and a later narrowing query of the same key was
\* answered by that row
C12_Witness ==
    /\ kind = "service"
    /\ \E i \in SvcCreatorsCancelled : \E j \in SvcHitsDone :
          /\ i < j
          /\ svc.queries[j].row = svc.queries[i].engine
          /\ svc.queries[j].terminal[1].fromCache
          /\ svc.engines[svc.queries[i].engine].state = "done"
          /\ Flatten(svc.queries[j].delivered) # <<>>
          /\ svc.queries[i].delivered = <<>>

\* C13, in every step: a call of cancel() on an engine that was cancelled
\* before changes nothing.
C13_Step ==
    /\ (RgCancel /\ rg.canceled) => rg' = rg
    /\ (FwCancel /\ fw.isCanceled) => fw' = fw

\* C13: cancel() on RipgrepEngine or on the file Engine raises no error in
\* any lifecycle state (before search, while the child runs, after it has
\* closed, after a search without folders and extra files), and a repeated
\* call has no further effect.
C13_CancelSafe == [](~rg.cancelThrew) /\ [][C13_Step]_vars

\* C14: every match range the parser emits for a result line lies inside
\* the line's preview: 0 <= startCol <= endCol <= length(preview).
C14_RangesInPreview ==
    pl.pc = "parsed" =>
        \A i \in 1..Len(pl.matchRanges) :
            /\ 0 <= pl.matchRanges[i].startCol
            /\ pl.matchRanges[i].startCol <= pl.matchRanges[i].endCol
            /\ pl.matchRanges[i].endCol <= Len(pl.preview)

\* the places of an output where the lines of a file begin: its headers, and
\* 0 when the output begins with the result lines of the one loose file
RgSectionStarts(o, extra) ==
    {i \in 1..Len(o) : o[i].t = "file"}
        \cup (IF o # <<>> /\ o[1].t = "match" /\ extra > 0 THEN {0} ELSE {})

\* the k-th smallest of a set of numbers
KthOf(S, k) == CHOOSE h \in S : Cardinality({x \in S : x <= h}) = k

\* the first header after place h, Len(o) + 1 when there is none
RgNextHeader(o, h) ==
    LET later == {j \in (h + 1)..Len(o) : o[j].t = "file"}
    IN IF later = {} THEN Len(o) + 1
       ELSE CHOOSE j \in later : \A x \in later : j <= x

\* the match runs of the lines a..b of o
RECURSIVE RgRuns(_, _, _)
RgRuns(o, a, b) ==
    IF a > b THEN 0
    ELSE (IF a >= 1 /\ a <= Len(o) THEN o[a].n ELSE 0) + RgRuns(o, a + 1, b)

\* the output does not begin with result lines of an unknown file
RgFilesKnown ==
    ~(rg.cfg.extra = 0 /\ rg.cfg.output # <<>> /\ rg.cfg.output[1].t = "match")

\* C15: the k-th 'result' event of the parser is the k-th file of the output;
\* it is emitted once the file's header was read and no later than the next header is
\* read (so before any result line of the next file), at that header or else
\* as the last event when the parser is flushed or stopped; it carries the
\* match runs of the file's result lines read until then, cut at maxResults;
\* and a file whose next header was read, or whose child has closed, has had
\* its event.
C15_FileResultsContiguous ==
    (kind = "text" /\ RgFilesKnown) =>
        LET o == rg.cfg.output
            starts == RgSectionStarts(o, rg.cfg.extra)
            E == rg.emitted
        IN /\ Len(E) <= Cardinality(starts)
           /\ \A k \in 1..Len(E) :
                 LET h == KthOf(starts, k)
                     nh == RgNextHeader(o, h)
                     got == RgRuns(o, h + 1, Min(E[k].at, Len(o)))
                 IN /\ E[k].f = (IF h = 0 THEN ExtraFile ELSE o[h].f)
                    /\ h <= E[k].at /\ E[k].at <= nh
                    /\ E[k].n = (IF rg.cfg.maxResults = 0 THEN got
                                 ELSE Min(got, rg.cfg.maxResults - RgRuns(o, 1, h)))
                    /\ \/ E[k].at = nh
                       \/ /\ k = Len(E)
                          /\ E[k].at = rg.parsed
                          /\ rg.child = "closed" \/ rg.pIsDone
           /\ \A k \in 1..Cardinality(starts) :
                 LET h == KthOf(starts, k)
                 IN (\/ RgNextHeader(o, h) <= rg.parsed
                     \/ rg.child = "closed" /\ rg.parsed >= h /\ rg.parsed >= 1)
                       => k <= Len(E)

\* two files with headers were read to the end: the first file's event, with
\* the runs of two result lines' worth, came at the second header
C15_Witness ==
    /\ kind = "text"
    /\ rg.child = "closed"
    /\ Len(rg.emitted) = 2
    /\ rg.cfg.output[1].t = "file"
    /\ rg.emitted[1].f = "f1" /\ rg.emitted[1].n = 2 /\ rg.emitted[1].at = 3
    /\ rg.emitted[2].f = "f2" /\ rg.emitted[2].at = 4

\* the terminal calls of done of a walker
FwDoneEvs(s) == SelectSeq(s.log, LAMBDA x : x.e = "done")

\* C16: a search driven by one child process ends in success when the child
\* exits with code 0, or with code 1 after stdout data was received, and in an
\* error for every other exit code.
C16_ExitCodeDecidesOutcome ==
    (/\ kind = "walk"
     /\ fw.pc = "done"
     /\ ~fw.isCanceled
     /\ Len(fw.cfg.roots) = 1
     /\ fw.roots[1].code >= 0)
        => /\ Len(FwDoneEvs(fw)) = 1
           /\ FwDoneEvs(fw)[1].err
                 = ~(\/ fw.roots[1].code = 0
                     \/ fw.roots[1].code = 1 /\ fw.roots[1].gotData)

\* the roots of a walk whose child closed without an error
FwRootsCompleted(s) ==
    {r \in 1..Len(s.cfg.roots) :
        /\ s.roots[r].code \in {0, 1}
        /\ s.roots[r].pos = Len(FwChildOutput(s.cfg, r))}

\* a walk over several roots has ended, without cancel or limit, after the
\* traversal of a root raised an error
FwEndedWithRootError(s) ==
    /\ s.pc = "done"
    /\ ~s.isCanceled /\ ~s.isLimitHit
    /\ Len(s.cfg.roots) > 1
    /\ s.errors > 0

\* C17, the other roots: their traversals ran to completion and the files
\* they list that pass the gates were reported.
C17_OtherRootsComplete ==
    (kind = "walk" /\ FwEndedWithRootError(fw) /\ FwTraversal(fw.cfg) = "Ripgrep"
     /\ ~fw.cfg.sibling /\ ~fw.cfg.exists) =>
        /\ \A r \in 1..Len(fw.cfg.roots) : fw.roots[r].child \in {"closed", "errored"}
        /\ \A r \in FwRootsCompleted(fw) :
              \A x \in Range(FwChildOutput(fw.cfg, r)) :
                  FwGates(fw.cfg, x) => x \in Range(FwResultPaths(fw.log))

\* C17: an error in one folder root's traversal aborts only that root: the
\* other roots run to completion and their matches are emitted, and the
\* search ends with the terminal success item, not with a terminal error.
C17_RootErrorIsolated ==
    /\ C17_OtherRootsComplete
    /\ (kind = "walk" /\ FwEndedWithRootError(fw)) =>
          /\ Len(FwDoneEvs(fw)) = 1
          /\ ~FwDoneEvs(fw)[1].err

\* the unsorted file searches that were not cancelled
SvcUnsorted == {i \in 1..Len(svc.queries) :
                   svc.queries[i].type = "file" /\ svc.queries[i].state # "cancelled"}

\* the matches the engine of query q has handed to onResult, as search items
SvcEmittedItems(q) ==
    LET eng == svc.engines[q.engine]
    IN [j \in 1..eng.emitted |-> SvcRawMatchToSearchItem(eng.results[j])]

\* C18: in an unsorted file search with batchSize B > 0 every progress item
\* is a batch of exactly B matches, except that the last one of a finished
\* search holds between 1 and B; with no batch size every item is one match;
\* the items delivered, followed by the batch being filled, are the engine's
\* emission sequence; and the resultCount of the terminal success item is the
\* number of matches delivered.
C18_UnsortedBatches ==
    \A i \in SvcUnsorted :
        LET q == svc.queries[i]
            d == q.delivered
        IN /\ svc.batchSize > 0 =>
                 \A j \in 1..Len(d) :
                     /\ d[j].batch
                     /\ Len(d[j].items) >= 1 /\ Len(d[j].items) <= svc.batchSize
                     /\ (j < Len(d) \/ q.state = "running")
                           => Len(d[j].items) = svc.batchSize
           /\ svc.batchSize = 0 =>
                 /\ q.batch = <<>>
                 /\ \A j \in 1..Len(d) : ~d[j].batch /\ Len(d[j].items) = 1
           /\ Flatten(d) \o [j \in 1..Len(q.batch) |-> SvcRawMatchToSearchItem(q.batch[j])]
                 = SvcEmittedItems(q)
           /\ q.state # "running" => q.batch = <<>>
           /\ q.state = "done" =>
                 /\ svc.engines[q.engine].emitted = Len(svc.engines[q.engine].results)
                 /\ q.terminal[1].type = "success"
                 /\ q.terminal[1].resultCount = Len(Flatten(d))

\* an unsorted search of three files with batchSize 2 has finished with the
\* batches [2, 1]
C18_Witness ==
    /\ kind = "service"
    /\ svc.batchSize = SvcBatch
    /\ \E i \in SvcUnsorted :
          /\ svc.queries[i].state = "done"
          /\ Len(svc.queries[i].delivered) = 2
          /\ Len(svc.queries[i].delivered[1].items) = 2
          /\ Len(svc.queries[i].delivered[2].items) = 1
          /\ svc.queries[i].terminal[1].resultCount = 3

\* the queries sorted by score that constructed an engine
SvcSortedOwners == {i \in 1..Len(svc.queries) :
                       svc.queries[i].type = "sorted" /\ svc.queries[i].engine # 0}

DsFirstTerminal(fired) ==
    LET at == {i \in 1..Len(fired) : DsIsComplete(fired[i])}
    IN IF at = {} THEN Len(fired) + 1 ELSE CHOOSE i \in at : \A j \in at : i <= j

\* the number of items fired before the token was cancelled
DsBeforeCancel(s) == IF s.canceledAt >= 0 THEN s.canceledAt ELSE Len(s.fired)

\* the file matches of the first n items fired, in arrival order
RECURSIVE DsMatchesOf(_, _)
DsMatchesOf(fired, n) ==
    IF n = 0 THEN <<>>
    ELSE DsMatchesOf(fired, n - 1)
            \o (IF fired[n].t \in {"match", "batch"}
                    THEN [i \in 1..Len(fired[n].items) |-> DsCreateFileMatch(fired[n].items[i])]
                    ELSE <<>>)

\* C20: collectResultsFromEvent resolves when the terminal success item
\* arrives, with the file matches of every match received before it, singly
\* or in batches, in arrival order; each of them was passed to onProgress
\* exactly once; a terminal error item rejects the promise; and the listener
\* is disposed after the terminal item, so that later items change nothing.
C20_CollectResults ==
    kind = "collect" =>
        LET T == DsFirstTerminal(ds.fired)
            C == DsBeforeCancel(ds)
            heard == Min(T - 1, C)
            terminalHeard == T <= C /\ T <= Len(ds.fired)
        IN /\ ds.result = DsMatchesOf(ds.fired, heard)
           /\ ds.onProgress =>
                 SelectSeq(ds.progress, LAMBDA x : x \notin DsEvents) = ds.result
           /\ ~ds.onProgress => ds.progress = <<>>
           /\ terminalHeard =>
                 /\ ~ds.listening
                 /\ ds.fired[T].t = "success" =>
                       /\ ds.promise = "fulfilled"
                       /\ ds.value.results = DsMatchesOf(ds.fired, T - 1)
                       /\ ds.value.limitHit = ds.fired[T].limitHit
                 /\ ds.fired[T].t = "error" =>
                       ds.promise = "rejected" /\ ds.value.error = "error"
           /\ ~terminalHeard =>
                 /\ ds.promise # "fulfilled"
                 /\ ds.promise = "pending" <=> ds.canceledAt = -1
                 /\ ds.listening <=> ds.canceledAt = -1

\* a batch of two and a single match arrived, then success, then one more
\* match: the promise is fulfilled with the first three
C20_Witness ==
    /\ kind = "collect"
    /\ ds.onProgress
    /\ Len(ds.fired) = 4
    /\ ds.fired[1].t = "batch" /\ Len(ds.fired[1].items) = 2
    /\ ds.fired[2].t = "match"
    /\ ds.fired[3].t = "success"
    /\ ds.fired[4].t = "match"
    /\ ds.promise = "fulfilled"
    /\ Len(ds.value.results) = 3
    /\ Len(ds.progress) = 3

\* the relative paths reported for root r, in order
FwResultsOfRoot(log, r) ==
    LET res == SelectSeq(log, LAMBDA x : x.e = "result" /\ x.n = r)
    IN [i \in 1..Len(res) |-> res[i].f]

\* the place of path p in the output of a child (every path is listed once)
FwPlaceIn(out, p) == CHOOSE i \in 1..Len(out) : out[i] = p

\* C21: in a command-based traversal the results of one folder root are
\* reported in the order in which the child's output listed them, when the
\* lines are streamed directly and when they pass through the directory tree.
C21_RootOrderIsOutputOrder ==
    (kind = "walk" /\ FwTraversal(fw.cfg) # "Node") =>
        \A r \in 1..Len(fw.cfg.roots) :
            LET res == FwResultsOfRoot(fw.log, r)
                out == FwChildOutput(fw.cfg, r)
            IN \A i \in 1..Len(res) : \A j \in 1..Len(res) :
                   i < j => FwPlaceIn(out, res[i]) < FwPlaceIn(out, res[j])

\* the roots whose traversal has called its completion callback
FwRootsDone(s) == {r \in 1..Len(s.cfg.roots) : s.roots[r].done}

\* the roots whose traversal was started
FwRootsStarted(s) ==
    {r \in 1..Len(s.cfg.roots) :
        s.roots[r].child # "none" \/ s.roots[r].ops # {} \/ s.roots[r].done}

\* C22, in every state: done was called at most once, once when the walk has
\* ended, and then every root's traversal has called back (no traversal was
\* started only when the walk was cancelled before it began); flow.parallel
\* has counted one callback for every root that has called back.
C22_State ==
    kind = "walk" =>
        /\ CountEv(fw.log, "done") <= 1
        /\ (fw.pc = "done") <=> (CountEv(fw.log, "done") = 1)
        /\ fw.doneCount = Cardinality(FwRootsDone(fw))
        /\ fw.pc = "done" =>
              \/ FwRootsDone(fw) = 1..Len(fw.cfg.roots)
              \/ FwRootsStarted(fw) = {} /\ fw.log[Len(fw.log)].late

\* C22, in every step: a root that has called back stays so, and the count
\* of callbacks grows by the roots that call back in the step.
C22_Step ==
    kind = "walk" =>
        /\ FwRootsDone(fw) \subseteq FwRootsDone(fw')
        /\ fw'.doneCount - fw.doneCount = Cardinality(FwRootsDone(fw') \ FwRootsDone(fw))
        /\ CountEv(fw'.log, "done") >= CountEv(fw.log, "done")

\* C22: FileWalker.walk signals completion exactly once, only after the
\* traversal of every folder query has signalled its own completion, for any
\* interleaving of the roots' callbacks; each root's completion callback
\* fires at most once, whatever the order of its child's data, error and
\* close events.
C22_CompletionOnce == []C22_State /\ [][C22_Step]_vars

\* two roots: the child of one emitted data, then error, then close; the
\* walk ended once, after both roots had called back
C22_Witness ==
    /\ kind = "walk"
    /\ fw.pc = "done"
    /\ Len(fw.cfg.roots) = 2
    /\ \E r \in 1..2 :
          /\ fw.roots[r].gotData
          /\ fw.roots[r].code = 2
          /\ fw.errors = 1
    /\ \A r \in 1..2 : fw.roots[r].child = "closed"
    /\ fw.doneCount = 2
    /\ CountEv(fw.log, "done") = 1

\* a walk has ended undisturbed: no cancel, no limit, no error, and every
\* child wrote its whole output
FwEndedUndisturbed(s) ==
    /\ s.pc = "done"
    /\ ~s.isCanceled /\ ~s.isLimitHit /\ ~s.cfg.exists
    /\ s.errors = 0
    /\ \A r \in 1..Len(s.cfg.roots) :
          FwTraversal(s.cfg) # "Node" =>
              /\ s.roots[r].child = "closed"
              /\ s.roots[r].pos = Len(FwChildOutput(s.cfg, r))

\* the roots that hold a file whose relative path is the file pattern and
\* that the include pattern, when there is one, lets pass
FwRootsWithLiteral(c) ==
    {r \in 1..Len(c.roots) :
        /\ c.filePattern \in Range(c.roots[r])
        /\ (~c.include \/ IncludeGlob(c.filePattern, Basename(c.filePattern)))}

\* C23: with every traversal backend, an existing file whose relative path
\* equals the literal file pattern is reported exactly once for its root.
C23_LiteralReportedOnce ==
    (kind = "walk" /\ FwEndedUndisturbed(fw)) =>
        \A r \in FwRootsWithLiteral(fw.cfg) :
            Cardinality({i \in 1..Len(fw.log) :
                            /\ fw.log[i].e = "result"
                            /\ fw.log[i].n = r
                            /\ fw.log[i].f = fw.cfg.filePattern}) = 1

\* C24: extendQuery is idempotent for a fixed configuration: a second and
\* every later call leaves the query as the first call left it; a file
\* encoding and every exclude key the query was given keep their values; and
\* with disregardExcludeSettings the excludes stay as they were given.
C24_ExtendQueryIdempotent ==
    kind = "extend" =>
        LET given == eq.history[1] IN
        /\ \A i \in 2..Len(eq.history) : eq.history[i] = eq.history[2]
        /\ ExtendQuery(eq.configuration, ExtendQuery(eq.configuration, given)) =
               ExtendQuery(eq.configuration, given)
        /\ given.fileEncoding # Undefined => eq.query.fileEncoding = given.fileEncoding
        /\ given.excludePattern.o \subseteq eq.query.excludePattern.o
        /\ Cardinality(Keys(eq.query.excludePattern.o)) = Cardinality(eq.query.excludePattern.o)
        /\ given.disregardExcludeSettings => eq.query.excludePattern = given.excludePattern
        /\ eq.query.disregardExcludeSettings = given.disregardExcludeSettings

\* a query with an encoding and an exclude key the configuration sets
\* differently, extended twice and changed by the first call
C24_Witness ==
    /\ kind = "extend"
    /\ Len(eq.history) >= 3
    /\ eq.history[2] # eq.history[1]
    /\ eq.history[1].fileEncoding = "utf8" /\ eq.configuration.encoding = "latin1"
    /\ <<"**/x", "false">> \in eq.history[1].excludePattern.o
    /\ <<"**/x", "true">> \in eq.configuration.exclude.o
    /\ <<"**/.git", "true">> \in eq.query.excludePattern.o

\* the engine has handled the parser's 'hitLimit' event
RgLimitDone(s) == \E i \in 1..Len(s.log) : s.log[i].e = "done" /\ s.log[i].limitHit

\* the file of the header that precedes line i of the output
RgFileOfLine(s, i) ==
    LET hs == {j \in 1..i : s.cfg.output[j].t = "file"} IN
    IF hs = {} THEN ExtraFile
    ELSE s.cfg.output[CHOOSE j \in hs : \A k \in hs : k <= j].f

\* the output has no match line the parser cannot tell the file of (such a
\* line makes handleMatchLine throw and the rest of its chunk is never looked
\* at, so that the parser's line count is no longer the place in the output)
RgHeadersFirst(c) == c.extra = 1 \/ c.output = <<>> \/ c.output[1].t = "file"

\* C25 (state): the limit is handled exactly when the match count has reached
\* maxResults; it was reached on the last line the parser looked at, a match
\* line that was counted to its end; the last 'result' event was emitted at
\* that line, for the file the line belongs to, and is the only one for that
\* file; the parser holds no file any more; the child was sent a signal and
\* done was called once, with limitHit.
C25_State ==
    kind = "text" =>
        /\ RgLimitDone(rg) <=>
              (rg.cfg.maxResults > 0 /\ rg.numResults >= rg.cfg.maxResults)
        /\ RgLimitDone(rg) =>
              /\ CountEv(rg.log, "done") = 1
              /\ rg.isDone /\ rg.pIsDone /\ rg.killed
              /\ rg.exitListeners = 0
              /\ rg.fileMatch = <<>>
              /\ rg.parsed >= 1
              /\ RgHeadersFirst(rg.cfg) =>
                    /\ rg.cfg.output[rg.parsed].t = "match"
                    /\ rg.numResults - rg.cfg.output[rg.parsed].n < rg.cfg.maxResults
              /\ rg.emitted # <<>>
              /\ LET last == rg.emitted[Len(rg.emitted)] IN
                    /\ last.at = rg.parsed
                    /\ RgHeadersFirst(rg.cfg) => last.f = RgFileOfLine(rg, rg.parsed)
                    /\ \A i \in 1..Len(rg.emitted) :
                          rg.emitted[i].f = last.f => i = Len(rg.emitted)

\* C25 (step): once the limit is handled no later line is parsed, no further
\* 'result' event is emitted and done is not called again - by 'close' or by
\* anything else; without the sibling post-filter nothing at all is reported.
C25_Step ==
    (kind = "text" /\ RgLimitDone(rg)) =>
        /\ rg'.parsed = rg.parsed
        /\ rg'.numResults = rg.numResults
        /\ rg'.emitted = rg.emitted
        /\ CountEv(rg'.log, "done") = CountEv(rg.log, "done")
        /\ ~rg.cfg.sibling => rg'.log = rg.log

\* C25: the hit-limit protocol of the parser and its driver.
C25_HitLimitProtocol == []C25_State /\ [][C25_Step]_vars

\* the limit was reached by the first of two matches of a line, a later line
\* of the output went unparsed, and the child has closed
C25_Witness ==
    /\ kind = "text"
    /\ RgLimitDone(rg)
    /\ rg.child = "closed"
    /\ rg.numResults > rg.cfg.maxResults
    /\ rg.parsed < Len(rg.cfg.output)
    /\ rg.pos = Len(rg.cfg.output)
    /\ RgHeadersFirst(rg.cfg)
    /\ Len(rg.emitted) = 2

\* C26: in a text search every onResult call precedes the done callback: no
\* result is reported after done, on a normal close and on a limit hit alike,
\* with the sibling post-filter too.
C26_ResultsBeforeDone ==
    kind = "text" =>
        \A i, j \in 1..Len(rg.log) :
            (i < j /\ rg.log[i].e = "done") => rg.log[j].e # "result"

\* the same on the paths without the sibling post-filter and on normal close
C26_WithoutPendingFilter ==
    (kind = "text" /\ (~rg.cfg.sibling \/ ~RgLimitDone(rg))) =>
        \A i, j \in 1..Len(rg.log) :
            (i < j /\ rg.log[i].e = "done") => rg.log[j].e # "result"

\* done has been called
RgDoneCalled(s) == CountEv(s.log, "done") >= 1

\* C27: if a text search is not cancelled, then after its child has closed
\* done is eventually called, however the sibling lookups of the post-filter
\* end.
C27_DoneAfterClose ==
    [](((kind = "text" /\ rg.child = "closed" /\ ~rg.canceled)
           => <>(RgDoneCalled(rg) \/ rg.canceled)))

\* the same as long as no sibling lookup has failed
C27_DoneUnlessLookupFailed ==
    [](((kind = "text" /\ rg.child = "closed" /\ ~rg.canceled)
           => <>(RgDoneCalled(rg) \/ rg.canceled \/ rg.handledFailed)))

\* the text search's part of C28: the step that cancels the engine signals
\* its running child
C28_TextStep ==
    (kind = "text" /\ ~rg.canceled /\ rg'.canceled /\ rg.child = "running") =>
        rg'.killed

\* the file walk's part of C28: the step that cancels the walker signals the
\* running child of every root
C28_WalkStep ==
    (kind = "walk" /\ ~fw.isCanceled /\ fw'.isCanceled) =>
        \A r \in 1..Len(fw.cfg.roots) :
            fw.roots[r].child = "running" => fw'.roots[r].killed

C28_TextChildSignalled == [][C28_TextStep]_vars

\* C28: upon cancel every child process spawned for the search and still
\* running is sent a terminate signal: the rg process of a text search and
\* the rg or find process of each root of a file walk.
C28_CancelSignalsChildren == [][C28_TextStep /\ C28_WalkStep]_vars

\* C29: once a text search is cancelled no flush timer of its collector is
\* pending, and no call of the progress callback made by the timer comes
\* after the cancellation.
C29_NoTimerAfterCancel ==
    (kind = "text" /\ bc.on /\ rg.canceled) =>
        /\ ~bc.timerPending
        /\ \A i \in 1..Len(bc.calls) : ~(bc.calls[i].by = "timer" /\ bc.calls[i].late)

\* a search that is not cancelled leaves no timer behind once done is called
C29_NoTimerAfterDone ==
    (kind = "text" /\ bc.on /\ ~rg.canceled /\ RgDoneCalled(rg) /\ ~rg.cfg.sibling) =>
        ~bc.timerPending

\* the token was cancelled before a terminal item had arrived
DsCanceledFirst(s) ==
    s.canceledAt >= 0 /\ DsFirstTerminal(s.fired) > s.canceledAt

\* C30 (state): when the token was cancelled before a terminal item, the
\* listener is disposed, the promise is rejected with the canceled error, and
\* onProgress has been called for the items that arrived before the cancel
\* and for no other.
C30_State ==
    (kind = "collect" /\ DsCanceledFirst(ds)) =>
        /\ ~ds.listening
        /\ ds.promise = "rejected"
        /\ ds.value.error = "canceled"
        /\ Len(SelectSeq(ds.progress, LAMBDA x : "resource" \in DOMAIN x)) =
               IF ds.onProgress THEN Len(DsMatchesOf(ds.fired, ds.canceledAt)) ELSE 0
        /\ Len(SelectSeq(ds.progress, LAMBDA x : "resource" \notin DOMAIN x)) =
               IF ds.onProgress
                   THEN Cardinality({i \in 1..ds.canceledAt : ds.fired[i].t = "message"})
                   ELSE 0

\* C30 (step): after such a cancel no step calls onProgress or touches the
\* result or the promise; and a cancel that comes after the terminal item
\* changes nothing but the token.
C30_Step ==
    /\ (kind = "collect" /\ DsCanceledFirst(ds)) =>
          /\ ds'.progress = ds.progress
          /\ ds'.result = ds.result
          /\ ds'.promise = ds.promise /\ ds'.value = ds.value
          /\ ~ds'.listening
    /\ (kind = "collect" /\ ds.canceledAt = -1 /\ ds'.canceledAt >= 0
            /\ DsFirstTerminal(ds.fired) <= Len(ds.fired)) =>
          ds' = [ds EXCEPT !.canceledAt = Len(ds.fired)]

\* C30: cancelling the token of collectResultsFromEvent.
C30_CancelCollect == []C30_State /\ [][C30_Step]_vars

\* a match arrived and was passed to onProgress, the token was cancelled, and
\* matches and a terminal item fired afterwards went unheard
C30_Witness ==
    /\ kind = "collect"
    /\ ds.onProgress
    /\ ds.canceledAt = 1
    /\ Len(ds.fired) = 3
    /\ ds.fired[1].t = "match" /\ ds.fired[2].t = "match" /\ ds.fired[3].t = "success"
    /\ ds.promise = "rejected" /\ ds.value.error = "canceled"
    /\ Len(ds.progress) = 1

\* a token cancelled after the terminal success item: the promise stays
\* fulfilled
C30_WitnessLate ==
    /\ kind = "collect"
    /\ ds.canceledAt = 2
    /\ ds.fired[2].t = "success"
    /\ ds.promise = "fulfilled"

\* the queries served by a cache row whose search was still running when
\* they arrived
SvcInFlightHits(s) ==
    {i \in 1..Len(s.queries) :
        /\ s.queries[i].type = "sorted"
        /\ s.queries[i].engine = 0
        /\ s.queries[i].row # 0
        /\ ~s.queries[i].cacheWasResolved}

\* C31 (state): a query served by a row whose search was still running has
\* constructed no engine; it is done only when the row's engine is done, and
\* then it has delivered the entries of the engine's full result list that
\* pass its fuzzy test, best first, with fromCache.
C31_State ==
    kind = "service" =>
        \A i \in SvcInFlightHits(svc) :
            LET q == svc.queries[i]
                eng == svc.engines[q.row]
            IN /\ eng.owner # i
               /\ q.state = "done" =>
                     /\ eng.state = "done"
                     /\ eng.emitted = Len(eng.results)
                     /\ Flatten(q.delivered) =
                            LET sorted == SvcSortResults(q.maxResults,
                                              SvcFilterCached(eng.results, q.pattern))
                            IN [k \in 1..Len(sorted) |-> SvcRawMatchToSearchItem(sorted[k])]
                     /\ q.terminal[1].fromCache
               /\ eng.state = "running" => q.state \in {"running", "cancelled"}
               /\ q.messages <= eng.messages

\* C31 (step): the arrival of such a query constructs no engine; its
\* cancellation leaves every engine and every cache as it is; and once it is
\* cancelled it receives nothing more.
C31_Step ==
    /\ (Len(svc'.queries) = Len(svc.queries) + 1
           /\ Len(svc.queries) + 1 \in SvcInFlightHits(svc'))
          => /\ svc'.engines = svc.engines
             /\ svc'.caches = svc.caches
             /\ svc'.queries[Len(svc'.queries)].state = "running"
    /\ \A i \in SvcInFlightHits(svc) :
          /\ (svc.queries[i].state = "running" /\ svc'.queries[i].state = "cancelled")
                => svc'.engines = svc.engines /\ svc'.caches = svc.caches
          /\ svc.queries[i].state = "cancelled"
                => /\ svc'.queries[i] = svc.queries[i]
                   /\ ~svc'.engines[svc.queries[i].row].canceled

\* C31: a narrowing query that arrives while the cached row's search is
\* still running starts no second engine, completes only after that engine,
\* with results drawn from its full result list; cancelling it neither
\* cancels the engine nor removes the row, and it receives no further
\* forwarded progress.
C31_InFlightRowReuse == []C31_State /\ [][C31_Step]_vars

\* a query joined a running row and was cancelled before the engine
\* reported a progress message, which it did not receive; the engine then
\* completed for its creator and the row is still in its cache
C31_Witness ==
    /\ kind = "service"
    /\ \E i \in SvcInFlightHits(svc) :
          LET q == svc.queries[i]
              eng == svc.engines[q.row]
          IN /\ q.state = "cancelled"
             /\ q.messages = 0 /\ eng.messages = 1
             /\ svc.queries[eng.owner].messages = 1
             /\ eng.state = "done"
             /\ svc.queries[eng.owner].state = "done"
             /\ \E k \in SvcKeys : \E row \in SvcRowsOf(svc.caches, k) : row.eng = q.row

\* a query joined a running row, received a forwarded progress message and
\* completed from the cache when the engine completed
C31_WitnessDone ==
    /\ kind = "service"
    /\ \E i \in SvcInFlightHits(svc) :
          /\ svc.queries[i].state = "done"
          /\ svc.queries[i].messages = 1
          /\ Len(svc.queries[i].delivered) >= 1

\* C32: the collector loses and duplicates nothing: when flush() has
\* returned, every item given to addItem / addItems, whatever its size, has
\* been given to the callback exactly once, in the order of insertion.
C32_NothingLost ==
    (bc.on /\ bc.afterFlush) => bc.delivered = bc.added

\* what is sure: nothing is given twice or out of order, and what has not
\* been given to the callback is still in the batch
C32_DeliveredOrBatched ==
    bc.on => bc.delivered \o bc.batch = bc.added

\* C33: below START_BATCH_AFTER_COUNT of delivered size every addition is
\* given to the callback at once; from then on an addition calls the callback
\* only when the accumulated size reaches maxBatchSize (the timer and an
\* explicit flush() are the other callers); at most one timer is pending, and
\* a batch that is not empty after the warm-up has a pending timer.
C33_State ==
    bc.on =>
        /\ bc.totalNumberCompleted < START_BATCH_AFTER_COUNT => bc.delivered = bc.added
        /\ bc.timers <= 1
        /\ (bc.totalNumberCompleted >= START_BATCH_AFTER_COUNT /\ bc.batch # <<>>) =>
                bc.timers > 0

C33_Step ==
    (/\ bc.on
     /\ bc.totalNumberCompleted >= START_BATCH_AFTER_COUNT
     /\ Len(bc'.calls) > Len(bc.calls)
     /\ bc'.calls[Len(bc'.calls)].by = "item") =>
        bc'.totalNumberCompleted - bc.totalNumberCompleted >= bc.maxBatchSize

C33_WarmupThenBatches == []C33_State /\ [][C33_Step]_vars

\* what is sure: the batch measured by its summed size, as flush() does, is
\* empty during the warm-up, and afterwards timeoutHandle is set while it is
\* not empty - by a timer that may have fired already
C33_StateBySize ==
    bc.on =>
        /\ bc.totalNumberCompleted < START_BATCH_AFTER_COUNT => bc.batchSize = 0
        /\ bc.timers <= 1
        /\ bc.timerPending = (bc.timers = 1)
        /\ (bc.totalNumberCompleted >= START_BATCH_AFTER_COUNT /\ bc.batchSize > 0) =>
                bc.timeoutHandle

C33_BySize == []C33_StateBySize /\ [][C33_Step]_vars

\* C34: after any call of flush() the batch is empty and no timer is
\* pending; a call of flush() adds to the running total exactly the size it
\* drained, and calls no callback when the batch is empty.
C34_State ==
    (bc.on /\ bc.afterFlush) =>
        /\ bc.batch = <<>>
        /\ bc.batchSize = 0
        /\ bc.timers = 0

C34_Step ==
    (bc.on /\ bc'.afterFlush) =>
        /\ bc'.added = bc.added =>
              bc'.totalNumberCompleted = bc.totalNumberCompleted + bc.batchSize
        /\ bc'.totalNumberCompleted >= bc.totalNumberCompleted + bc.batchSize
        /\ (bc'.added = bc.added /\ bc.batch = <<>>) => bc'.calls = bc.calls

C34_AfterFlush == []C34_State /\ [][C34_Step]_vars

\* what is sure: after flush() the summed size is 0, and a flush() that
\* found a summed size above 0 leaves an empty batch and no pending timer
C34_StateBySize ==
    (bc.on /\ bc.afterFlush) => bc.batchSize = 0

C34_StepBySize ==
    (bc.on /\ bc'.afterFlush /\ bc'.totalNumberCompleted > bc.totalNumberCompleted) =>
        /\ bc'.batch = <<>>
        /\ bc'.timers = 0
        /\ ~bc'.timeoutHandle

C34_BySize == []C34_StateBySize /\ [][C34_Step /\ C34_StepBySize]_vars

\* C35: parsing does not depend on where the stream is cut: however the
\* stream was cut into chunks, after flush() the parser has emitted the
\* 'result' and 'hitLimit' events it emits for the stream as one chunk.
C35_ChunkIndependent ==
    (kind = "parse" /\ ps.flushed) => PsEvents(ps) = PsEvents(PsWhole(ps))

\* the same for the runs in which no call of handleData has thrown
C35_UnlessThrown ==
    (kind = "parse" /\ ps.flushed /\ ~ps.everThrew /\ ~PsWhole(ps).everThrew) =>
        PsEvents(ps) = PsEvents(PsWhole(ps))

\* the matches of the result lines of a stream, and those of the emitted
\* 'result' events
PsMatchesIn(str) == Cardinality({i \in 1..Len(str) : str[i] = "m"})

RECURSIVE PsMatchesEmitted(_)
PsMatchesEmitted(em) ==
    IF em = <<>> THEN 0 ELSE em[1].n + PsMatchesEmitted(Tail(em))

PsAllParsed(p) ==
    /\ p.remainder = <<>>
    /\ p.eng.fileMatch = <<>>
    /\ p.eng.cfg.maxResults = 0 => PsMatchesEmitted(p.eng.emitted) = PsMatchesIn(p.stream)

\* C36: after flush() every line the parser was given has been parsed, a last
\* line without a newline included: its matches are in an emitted 'result',
\* and no FileMatch and no remainder is left behind.
C36_FlushParsesAll ==
    (kind = "parse" /\ ps.flushed /\ ~ps.everThrew) => PsAllParsed(ps)

\* the same for the streams that end with a newline
C36_TerminatedStreams ==
    (/\ kind = "parse" /\ ps.flushed /\ ~ps.everThrew
     /\ (ps.stream = <<>> \/ ps.stream[Len(ps.stream)] = "\n")) => PsAllParsed(ps)

\* the parser has looked at a result line that came before any header
RgHeaderlessParsed(s) ==
    s.cfg.output # <<>> /\ s.cfg.output[1].t = "match" /\ s.parsed >= 1

\* the file of the first result line: collected, or emitted already
RgFirstFile(s) ==
    IF s.emitted # <<>> THEN s.emitted[1].f
    ELSE IF s.fileMatch # <<>> THEN s.fileMatch[1].f
    ELSE ""

C37_Attributed ==
    (kind = "text" /\ RgHeaderlessParsed(rg) /\ rg.cfg.extra = 1) =>
        (RgFirstFile(rg) = ExtraFile /\ ~rg.threw)

C37_NothingEmitted ==
    (kind = "text" /\ rg.threw) =>
        (rg.cfg.extra = 0 /\ rg.emitted = <<>> /\ rg.fileMatch = <<>>)

\* C37: a result line that arrives while no file is current belongs to the
\* first extra file; without an extra file no result is emitted for it and
\* the search ends with it: done has been called with the error when the
\* handler of the chunk is left.
C37_UnknownFile ==
    /\ C37_Attributed
    /\ C37_NothingEmitted
    /\ (kind = "text" /\ rg.threw) =>
          (rg.log # <<>> /\ rg.log[Len(rg.log)].e = "done" /\ rg.log[Len(rg.log)].err)

\* what is sure: the attribution, and that nothing is emitted for the line
C37_AttributedOrDropped == C37_Attributed /\ C37_NothingEmitted

\* the text search has ended and its child has closed: done was called or
\* the owner cancelled, and the 'close' continuation is not waiting
RgEndedAndClosed(s) ==
    /\ s.child = "closed"
    /\ RgDoneCalled(s) \/ s.canceled
    /\ s.pending = <<>>

C38_Text ==
    kind = "text" =>
        /\ rg.exitListeners <= 1
        /\ RgEndedAndClosed(rg) => rg.exitListeners = 0

C38_TextUnlessCanceled ==
    kind = "text" =>
        /\ rg.exitListeners <= 1
        /\ (RgEndedAndClosed(rg) /\ ~rg.canceled) => rg.exitListeners = 0

C38_Walk ==
    kind = "walk" =>
        \A r \in 1..Len(fw.cfg.roots) :
            /\ fw.roots[r].exitListener => fw.roots[r].child # "none"
            /\ fw.roots[r].child = "closed" => ~fw.roots[r].exitListener

\* C38: the process 'exit' listener that kills the child is registered at
\* most once for a child, and it is not registered any more once the search
\* has ended and the child has closed - however the search ended.
C38_ExitListenerRemoved == C38_Text /\ C38_Walk

\* what is sure: the listener of a walker's child is removed when the child
\* has closed, and that of a text search unless the search was cancelled
C38_RemovedUnlessCanceled == C38_TextUnlessCanceled /\ C38_Walk

\* the traversal comes to its end
C39_Terminates == <>(kind = "links" => nt.pc = "done")

\* no directory has been listed twice
C39_ListedOnce == kind = "links" => \A d \in NtDirs : nt.listed[d] <= 1

\* C39: the native traversal terminates on every file system, cycles of
\* symbolic links included, and lists the entries of no directory - the
\* root folder included - more than once.
C39_TerminatesListingOnce == C39_Terminates /\ []C39_ListedOnce

\* what is sure besides the termination: no directory is listed twice when
\* no link leads to the root folder or to a directory with subdirectories
C39_ListedOnceUnlessLinkedInto ==
    (/\ kind = "links"
     /\ \A l \in nt.fs.links :
           l[2] # "R" /\ \A d \in {"A", "B"} : nt.fs.parent[d] # l[2]) =>
        \A d \in NtDirs : nt.listed[d] <= 1

\* the tokens of the text handleMatchLine is given
PlGiven(l) == IF l.cr THEN Append(l.tokens, "E") ELSE l.tokens

PlMarkers(toks) == SelectSeq(toks, LAMBDA t : t \in {"S", "E"})

PlPlain(toks) == SelectSeq(toks, LAMBDA t : t \notin {"S", "E"})

\* the markers of a line alternate in pairs: start, end, start, end, ...
PlAlternating(toks) ==
    LET ms == PlMarkers(toks) IN
    /\ Len(ms) % 2 = 0
    /\ \A i \in 1..Len(ms) : ms[i] = (IF i % 2 = 1 THEN "S" ELSE "E")

\* the place in toks of its j-th marker
PlMarkerAt(toks, j) ==
    CHOOSE i \in 1..Len(toks) :
        /\ toks[i] \in {"S", "E"}
        /\ Cardinality({k \in 1..i : toks[k] \in {"S", "E"}}) = j

\* the text between the j-th start marker and its end marker
PlMarked(toks, j) ==
    SubSeq(toks, PlMarkerAt(toks, 2 * j - 1) + 1, PlMarkerAt(toks, 2 * j) - 1)

====
